---------------------------- MODULE Spec2Model ----------------------------
(***************************************************************************)
(* Attitude estimation module of the revolution board                      *)
(* (flight/Modules/Attitude/revolution/attitude.c): the attitude task, the *)
(* complementary filter, the INS/GPS estimator and the settings callback.  *)
(*                                                                         *)
(* Numbers.  A C float is modelled as a fixed-point integer, the real      *)
(* value times SC, together with the three IEEE special values +inf, -inf  *)
(* and NaN.  A finite result whose magnitude exceeds FltMax overflows to   *)
(* an infinity, as a float does past FLT_MAX.  Time is counted in          *)
(* milliseconds: one RTOS tick is one millisecond, and a time step in      *)
(* seconds scaled by SC is the same number as the elapsed milliseconds.    *)
(***************************************************************************)
EXTENDS Integers, Sequences, FiniteSets, TLC

\* ------------------------------------------------------------------------
\* Fixed-point floats
\* ------------------------------------------------------------------------

\* Resolution of the fixed-point representation: 1.0 is SC.
SC == 10 * 10 * 10

\* Largest finite magnitude; beyond it a result is an infinity.
FltMax == 1000 * SC

PInf == FltMax + 1
NInf == -(FltMax + 1)
NaN == FltMax + 2

IsNaN(a) == a = NaN
IsInf(a) == a = PInf \/ a = NInf
IsFinite(a) == ~IsNaN(a) /\ ~IsInf(a)

Abs(n) == IF n < 0 THEN -n ELSE n
Sign(n) == IF n < 0 THEN -1 ELSE IF n > 0 THEN 1 ELSE 0

\* n / d for d > 0, rounded to nearest (ties away from zero).
RoundDiv(n, d) == IF n >= 0 THEN (n + d \div 2) \div d
                            ELSE -((-n + d \div 2) \div d)

\* A finite integer result brought back into the float range.
Clamp(n) == IF n > FltMax THEN PInf ELSE IF n < -FltMax THEN NInf ELSE n

SignedInf(s) == IF s < 0 THEN NInf ELSE PInf

Neg(a) == IF IsNaN(a) THEN NaN ELSE -a

Fabs(a) == IF IsNaN(a) THEN NaN ELSE Abs(a)

Add(a, b) ==
    IF IsNaN(a) \/ IsNaN(b) THEN NaN
    ELSE IF IsInf(a) /\ IsInf(b) THEN (IF a = b THEN a ELSE NaN)
    ELSE IF IsInf(a) THEN a
    ELSE IF IsInf(b) THEN b
    ELSE Clamp(a + b)

Sub(a, b) == Add(a, Neg(b))

Mul(a, b) ==
    IF IsNaN(a) \/ IsNaN(b) THEN NaN
    ELSE IF IsInf(a) \/ IsInf(b)
         THEN (IF a = 0 \/ b = 0 THEN NaN ELSE SignedInf(Sign(a) * Sign(b)))
    ELSE IF a = 0 \/ b = 0 THEN 0
    ELSE IF Abs(a) > (FltMax * SC + SC) \div Abs(b)
         THEN SignedInf(Sign(a) * Sign(b))
    ELSE Clamp(RoundDiv(a * b, SC))

Div(a, b) ==
    IF IsNaN(a) \/ IsNaN(b) THEN NaN
    ELSE IF IsInf(a) /\ IsInf(b) THEN NaN
    ELSE IF IsInf(a) THEN SignedInf(Sign(a) * (IF b < 0 THEN -1 ELSE 1))
    ELSE IF IsInf(b) THEN 0
    ELSE IF b = 0 THEN (IF a = 0 THEN NaN ELSE SignedInf(Sign(a)))
    ELSE Clamp(Sign(a) * Sign(b) * RoundDiv(Abs(a) * SC, Abs(b)))

\* a < b on floats: false as soon as one side is NaN.
Lt(a, b) == ~IsNaN(a) /\ ~IsNaN(b) /\ a < b
Gt(a, b) == Lt(b, a)
Le(a, b) == ~IsNaN(a) /\ ~IsNaN(b) /\ a <= b

RECURSIVE SqrtIter(_, _)
SqrtIter(n, r) ==
    LET r2 == (r + n \div r) \div 2
    IN  IF r2 >= r THEN r ELSE SqrtIter(n, r2)

\* Integer square root (floor).
Isqrt(n) == IF n = 0 THEN 0 ELSE SqrtIter(n, n)

Sqrtf(a) ==
    IF IsNaN(a) \/ a < 0 THEN NaN
    ELSE IF a = PInf THEN PInf
    ELSE Isqrt(a * SC)


\* A C integer converted to float.
IntToFloat(n) == Clamp(n * SC)

\* ------------------------------------------------------------------------
\* Vectors (CoordinateConversions library)
\* ------------------------------------------------------------------------

CrossProduct(v1, v2) ==
    << Sub(Mul(v1[2], v2[3]), Mul(v2[2], v1[3])),
       Sub(Mul(v2[1], v1[3]), Mul(v1[1], v2[3])),
       Sub(Mul(v1[1], v2[2]), Mul(v2[1], v1[2])) >>

Two == 2 * SC

\* Rotation matrix (body from earth) of a quaternion; q is 1-indexed here,
\* q[1] being the scalar part.
Quaternion2R(q) ==
    LET q0s == Mul(q[1], q[1])
        q1s == Mul(q[2], q[2])
        q2s == Mul(q[3], q[3])
        q3s == Mul(q[4], q[4])
    IN  << << Sub(Sub(Add(q0s, q1s), q2s), q3s),
              Mul(Two, Add(Mul(q[2], q[3]), Mul(q[1], q[4]))),
              Mul(Two, Sub(Mul(q[2], q[4]), Mul(q[1], q[3]))) >>,
           << Mul(Two, Sub(Mul(q[2], q[3]), Mul(q[1], q[4]))),
              Sub(Add(Sub(q0s, q1s), q2s), q3s),
              Mul(Two, Add(Mul(q[3], q[4]), Mul(q[1], q[2]))) >>,
           << Mul(Two, Add(Mul(q[2], q[4]), Mul(q[1], q[3]))),
              Mul(Two, Sub(Mul(q[3], q[4]), Mul(q[1], q[2]))),
              Add(Sub(Sub(q0s, q1s), q2s), q3s) >> >>

\* vec_out = R * vec (transpose = FALSE).
rot_mult(R, vec) ==
    [i \in 1..3 |->
        Add(Add(Mul(R[i][1], vec[1]), Mul(R[i][2], vec[2])), Mul(R[i][3], vec[3]))]

\* Length of a 3-vector, as sqrtf(x*x + y*y + z*z).
VecLen(v) == Sqrtf(Add(Add(Mul(v[1], v[1]), Mul(v[2], v[2])), Mul(v[3], v[3])))

VecDiv(v, s) == << Div(v[1], s), Div(v[2], s), Div(v[3], s) >>

Zero3 == << 0, 0, 0 >>
Identity == << SC, 0, 0, 0 >>

\* Euler angles of a quaternion.  The angles themselves are not computed:
\* the published triple is kept as the term "the angles of q".
Quaternion2RPY(q) == [of |-> q]


\* ------------------------------------------------------------------------
\* Program constants and bounds
\* ------------------------------------------------------------------------

FAILSAFE_TIMEOUT_MS == 10
F_PI == 3142
WarmupEndTick == 7000
WarmupStartTick == 1000
StartDelayTicks == 100

\* Loop passes modelled in one run (a run of consecutive timeouts is one).
MaxPass == 2
\* Environment events other than the regular gyro/accel/mag samples:
\* a settings change, a flight-status change, an out-of-range sample, a
\* sample of the slow sensors (barometer, GPS).
MaxEnv == 1

\* Milliseconds from the start of a gyro wait to the arrival of the sample.
SensorDelay == 6
\* Lengths of the runs of consecutive gyro timeouts that are modelled.
TimeoutRuns == {1, 90, 600}

AggressiveKp == SC
AggressiveKi == (9 * SC) \div 10
AggressiveYawBiasRate == (23 * SC) \div 100

magKi == 0
magKp == 0

\* AttitudeSettings values.  GyroBias is in 1/100 deg/s.
SettingsA == [AccelKp |-> 50, AccelKi |-> 100, YawBiasRate |-> 1,
              ZeroDuringArming |-> FALSE, GyroBias |-> << 100, 0, -100 >>,
              BoardRotation |-> << 0, 0, 0 >>]
SettingsB == [AccelKp |-> 100, AccelKi |-> 200, YawBiasRate |-> 3,
              ZeroDuringArming |-> TRUE, GyroBias |-> << 150, -200, 300 >>,
              BoardRotation |-> << 0, 0, 90 >>]
SettingsValues == {SettingsA, SettingsB}

\* Sensor samples.
GyroNominal == << 40 * SC, 40 * SC, 40 * SC >>
GyroOutOfRange == << PInf, 0, 0 >>
AccelNominal == << 0, 0, -9810 >>
AccelNull == << 0, 0, 0 >>
MagSample == << 0, 25 * SC, 0 >>
BaroSample == 12 * SC
\* Groundspeed in m/s and heading in degrees; position abstracted to the
\* local NED coordinates LLA2Base gives for it.
GpsSample ==
    [Groundspeed |-> 3 * SC, Heading |-> 90, NED |-> << 7 * SC, 0, -2 * SC >>]
NoGps == [Groundspeed |-> 0, Heading |-> 0, NED |-> Zero3]
\* HomeLocation.Be, the reference magnetic field.
HomeBe == << 20 * SC, 0, 20 * SC >>

ArmedValues == {"DISARMED", "ARMING", "ARMED"}

\* ------------------------------------------------------------------------
\* State
\* ------------------------------------------------------------------------

VARIABLES
    tick,               \* xTaskGetTickCount() and the PIOS_DELAY clock, in ms
    pc,                 \* position of the attitude task
    first_run,          \* AttitudeTask's local
    init,               \* static of updateAttitudeComplimentary
    timeval,            \* static of updateAttitudeComplimentary
    passes,             \* loop passes modelled so far
    wdg,                \* loop passes that updated the watchdog flag
    gyroQueue, accelQueue, magQueue, baroQueue, gpsQueue,  \* events pending
    Gyros, Accels, Magnetometer,                           \* sensor UAVObjects
    AttitudeActual,     \* [q, rpy]
    GyrosBias,
    alarm,              \* SYSTEMALARMS_ALARM_ATTITUDE
    accelKp, accelKi, yawBiasRate, zero_during_arming, rotate,
    AttitudeSettings,
    cbPending,          \* a settings-change event waits for its callback
    cbpc,               \* position of the asynchronous settingsUpdatedCb
    cbLocal,            \* its local attitudeSettings
    FlightStatus,       \* FlightStatus.Armed
    mag_err,            \* global
    loc,                \* locals of the running estimator call
    last,               \* what the last finished estimator call did
    env,                \* environment events so far
    estimator,          \* which estimator the task loop calls
    BaroAltitude, GPSPosition,                             \* sensor UAVObjects
    inited,             \* static of updateAttitudeINSGPS
    ins_last_time,      \* static of updateAttitudeINSGPS
    Nav,                \* the INS library's navigation solution
    PositionActual, VelocityActual,
    ins,                \* what the last INS/GPS call saw and passed on
    esc,                \* the speed controller program: its globals, its
                        \* function statics and the state of its peripherals
    mcp                 \* the MCP3424 sensor module: its settings object, the
                        \* task's position and locals, its sensor object

queueVars == << gyroQueue, accelQueue, magQueue, baroQueue, gpsQueue >>
sensorVars == << Gyros, Accels, Magnetometer >>
gainVars == << accelKp, accelKi, yawBiasRate, zero_during_arming, rotate >>
cbVars == << AttitudeSettings, cbPending, cbpc, cbLocal >>
taskVars == << pc, first_run, init, timeval, passes, wdg, loc, last >>
outVars == << AttitudeActual, GyrosBias, alarm, mag_err >>
slowVars == << BaroAltitude, GPSPosition >>
insState == << inited, ins_last_time, Nav, PositionActual, VelocityActual,
              ins >>
insVars == << estimator, insState >>

attVars == << tick, queueVars, sensorVars, gainVars, cbVars, taskVars,
              outVars, FlightStatus, env, slowVars, insVars >>

vars == << attVars, esc, mcp >>

NoLoc == [gyrosData |-> Zero3, accelsData |-> Zero3, dT |-> 0,
          q |-> Identity, accel_err |-> Zero3, gyrosBias |-> Zero3,
          magFresh |-> FALSE, usedKi |-> 0,
          tickAtPolicy |-> 0, armingAtPolicy |-> FALSE, branch |-> "none",
          policyKp |-> 0, policyKi |-> 0, policyYaw |-> 0]

NoLast == [result |-> "none", usedKi |-> 0, usedKp |-> 0, dT |-> 0,
           magFresh |-> FALSE, accel_err |-> Zero3, gyrosData |-> Zero3,
           tickAtPolicy |-> 0, armingAtPolicy |-> FALSE, branch |-> "none",
           policyKp |-> 0, policyKi |-> 0, policyYaw |-> 0,
           mag_err |-> Zero3, rate |-> Zero3, qmag |-> 0, waited |-> 0,
           prev |-> "none"]

NoNav == [Pos |-> Zero3, Vel |-> Zero3, q |-> << 0, 0, 0, 0 >>,
          gyro_bias |-> Zero3]

NoIns == [result |-> "none", mag_updated |-> FALSE, baro_updated |-> FALSE,
          gps_updated |-> FALSE, magRecv |-> FALSE, baroRecv |-> FALSE,
          gpsRecv |-> FALSE, sensors |-> {}, elapsed |-> 0, dT |-> 0,
          covDT |-> 0,
          corrected |-> NoNav]

\* Duty cycles are counted in units of 1e-8, the size of the step of line
\* 251.  Line 139: dc = 0.18.
DcInitial == 18000000

\* The speed controller before main runs: globals and statics as their
\* initialisers (or zero) leave them, the driver stage off, the commutation
\* timer interrupt not yet enabled.  duty is the duty cycle the driver
\* was last given, interval the time between two zero crossings that the
\* motor produces.  The fields from steps on are history kept for the
\* properties: the steps taken, the commutations handled in open loop, what
\* the last call of process_message did, the prev_state it compared with,
\* the count with which closed_loop was set, the messages posted since the
\* driver entered its present state, and the least and the greatest duty
\* cycle the driver was ever given.
EscReset ==
    [pcm |-> "boot", adc |-> "idle",
     commutated |-> FALSE, commutation_detected |-> FALSE,
     closed_loop |-> FALSE, closed_loop_updated |-> FALSE,
     init_state |-> "INIT_GRAB", init_counter |-> 0, current_speed |-> 0,
     consecutive_nondetects |-> 0, fail_count |-> 0,
     consecutive_skipped |-> 0, consecutive_detected |-> 0,
     prev_state |-> 0, prev_skipped |-> FALSE,
     message |-> [state |-> 0, read |-> FALSE],
     state |-> 0, on |-> FALSE, timer |-> FALSE,
     dc |-> DcInitial, duty |-> 0, smoothed_interval |-> 0, interval |-> 0,
     steps |-> 0, handled |-> 0, verdict |-> "none", judged_after |-> 0,
     entered_at |-> 0, reports |-> 0, duty_lo |-> 0, duty_hi |-> 0]

\* The sensor module when MCP3424Task is entered: the settings object holds
\* its defaults, nothing has been written to the converter or read from it.
\* channel, written and ok record, per quantity, the channel the last read
\* asked for, the configuration byte it wrote and what the read returned.
McpReset ==
    [pcq |-> "head",
     settings |-> [gain |-> [c \in 1..4 |-> "GAIN_1"],
                   Channel1Resolution |-> "RESOLUTION_18"],
     configByte |-> 0,
     channel |-> [q \in {"head", "voltage", "current"} |-> 0],
     written |-> [q \in {"head", "voltage", "current"} |-> 0],
     ok |-> [q \in {"head", "voltage", "current"} |-> FALSE],
     d1 |-> [buf4 |-> 0],
     sensor |-> [buf4 |-> 0]]

\* State after AttitudeInitialize and AttitudeStart.
InitCommon ==
    /\ tick = 0
    /\ pc = "start"
    /\ first_run = FALSE
    /\ init = 0
    /\ timeval = 0
    /\ passes = 0
    /\ wdg = 0
    /\ gyroQueue = 0 /\ accelQueue = 0 /\ magQueue = 0
    /\ baroQueue = 0 /\ gpsQueue = 0
    /\ Gyros = Zero3 /\ Accels = Zero3 /\ Magnetometer = Zero3
    /\ AttitudeActual = [q |-> Identity, rpy |-> Quaternion2RPY(Identity)]
    /\ GyrosBias = Zero3
    /\ alarm = "UNINITIALISED"
    /\ accelKp = 0 /\ accelKi = 0 /\ yawBiasRate = 0
    /\ zero_during_arming = FALSE
    /\ rotate = 0
    /\ AttitudeSettings \in SettingsValues
    /\ cbPending = FALSE
    /\ cbpc = "idle"
    /\ cbLocal = SettingsA
    /\ FlightStatus = "DISARMED"
    /\ mag_err = Zero3
    /\ loc = NoLoc
    /\ last = NoLast
    /\ env = 0
    /\ BaroAltitude = 0
    /\ GPSPosition = NoGps
    /\ inited = FALSE
    /\ ins_last_time = 0
    /\ Nav = NoNav
    /\ PositionActual = Zero3
    /\ VelocityActual = Zero3
    /\ ins = NoIns
    /\ esc = EscReset
    /\ mcp = McpReset

\* AttitudeTask calls the complementary filter (line 200).
Init == InitCommon /\ estimator = "complementary"


\* ------------------------------------------------------------------------
\* Environment: sensor drivers, ground station, flight status
\* ------------------------------------------------------------------------

\* A queue without a depth limit: not what the code does.
QueueSendUnbounded(n) == n + 1

\* A queue of depth 1 after a send: a send to a full queue is dropped.
QueueSend(n) == IF n < 1 THEN n + 1 ELSE n

\* The sensor drivers run while the attitude task is blocked in its gyro
\* wait; a sample landing during an estimator call is seen by the task as
\* one landing right after it.
DriversRun == pc = "wait" /\ passes < MaxPass

\* With the complementary filter the barometer and GPS events are only
\* flushed (lines 386-391), and a sample of these slow sensors counts as an
\* environment event; the INS/GPS estimator needs them in every run.
SlowSensorCost == IF estimator = "insgps" THEN 0 ELSE 1

\* The samples the gyro and accel drivers may publish.  The INS/GPS
\* estimator hands its samples to the library (lines 505 and 558), whose
\* results are left open here whatever the sample: out-of-range samples are
\* told apart for the complementary filter only.
GyroSamples ==
    IF estimator = "insgps" THEN {GyroNominal}
    ELSE {GyroNominal, GyroOutOfRange}

AccelSamples ==
    IF estimator = "insgps" THEN {AccelNominal}
    ELSE {AccelNominal, AccelNull}

\* The gyro driver sets Gyros, whose event goes to gyroQueue.  The sample
\* the task is waiting for arrives SensorDelay ms into the wait.
GyroPublish ==
    /\ DriversRun
    /\ \E g \in GyroSamples :
          /\ Gyros' = g
          /\ env' = IF g = GyroNominal THEN env ELSE env + 1
          /\ env' <= MaxEnv
    /\ gyroQueue' = QueueSend(gyroQueue)
    /\ tick' = IF gyroQueue = 0 THEN tick + SensorDelay ELSE tick
    /\ UNCHANGED << esc, mcp, insVars, slowVars,
                    accelQueue, magQueue, baroQueue, gpsQueue, Accels,
                    Magnetometer, gainVars, cbVars, taskVars, outVars,
                    FlightStatus >>

\* The accel driver sets Accels, whose event goes to accelQueue.  A sample
\* for which updateAttitudeINSGPS is blocked at line 417 arrives SensorDelay
\* ms into that wait.
AccelPublish ==
    /\ (pc = "wait" \/ pc = "ins_accel")
    /\ passes < MaxPass
    /\ \E a \in AccelSamples :
          /\ Accels' = a
          /\ env' = IF a = AccelNominal THEN env ELSE env + 1
          /\ env' <= MaxEnv
    /\ accelQueue' = QueueSend(accelQueue)
    /\ tick' = IF pc = "ins_accel" /\ accelQueue = 0
                THEN tick + SensorDelay ELSE tick
    /\ UNCHANGED << esc, mcp, insVars, slowVars,
                    gyroQueue, magQueue, baroQueue, gpsQueue, Gyros,
                    Magnetometer, gainVars, cbVars, taskVars, outVars,
                    FlightStatus >>

MagPublish ==
    /\ DriversRun
    /\ Magnetometer' = MagSample
    /\ magQueue' = QueueSend(magQueue)
    /\ UNCHANGED << esc, mcp, insVars, slowVars,
                    tick, gyroQueue, accelQueue, baroQueue, gpsQueue, Gyros,
                    Accels, gainVars, cbVars, taskVars, outVars,
                    FlightStatus, env >>

BaroPublish ==
    /\ DriversRun
    /\ env' = env + SlowSensorCost
    /\ env' <= MaxEnv
    /\ baroQueue' = QueueSend(baroQueue)
    /\ BaroAltitude' = BaroSample
    /\ UNCHANGED << esc, mcp, insVars, GPSPosition,
                    tick, gyroQueue, accelQueue, magQueue, gpsQueue,
                    sensorVars, gainVars, cbVars, taskVars, outVars,
                    FlightStatus >>

GPSPublish ==
    /\ DriversRun
    /\ env' = env + SlowSensorCost
    /\ env' <= MaxEnv
    /\ gpsQueue' = QueueSend(gpsQueue)
    /\ GPSPosition' = GpsSample
    /\ UNCHANGED << esc, mcp, insVars, BaroAltitude,
                    tick, gyroQueue, accelQueue, magQueue, baroQueue,
                    sensorVars, gainVars, cbVars, taskVars, outVars,
                    FlightStatus >>

\* Another task sets AttitudeSettings, to new values or to the same ones;
\* the object's event is queued for the callback either way.
SettingsSet ==
    /\ pc # "start"
    /\ env < MaxEnv
    /\ env' = env + 1
    /\ AttitudeSettings' \in SettingsValues
    /\ cbPending' = TRUE
    /\ UNCHANGED << esc, mcp, insVars, slowVars,
                    tick, queueVars, sensorVars, gainVars, cbpc, cbLocal,
                    taskVars, outVars, FlightStatus >>

\* DISARMED -> ARMING -> ARMED -> DISARMED, and ARMING -> DISARMED.
ArmedNext(a) ==
    IF a = "DISARMED" THEN {"ARMING"}
    ELSE IF a = "ARMING" THEN {"ARMED", "DISARMED"}
    ELSE {"DISARMED"}

FlightStatusSet ==
    /\ pc = "wait"
    /\ env < MaxEnv
    /\ env' = env + 1
    /\ FlightStatus' \in ArmedNext(FlightStatus)
    /\ UNCHANGED << esc, mcp, insVars, slowVars,
                    tick, queueVars, sensorVars, gainVars, cbVars, taskVars,
                    outVars >>

\* ------------------------------------------------------------------------
\* settingsUpdatedCb
\* ------------------------------------------------------------------------

\* GyroBias[i] / 100.0f
SettingsGyroBias(s) ==
    [i \in 1..3 |-> Div(IntToFloat(s.GyroBias[i]), IntToFloat(100))]

\* rotate: 0 when the board rotation is all zero.
SettingsRotate(s) == IF s.BoardRotation = << 0, 0, 0 >> THEN 0 ELSE 1

\* Lines 586-599: read the settings object, store gains and flag.
CbGains ==
    /\ cbpc = "idle"
    /\ cbPending
    /\ cbPending' = FALSE
    /\ cbLocal' = AttitudeSettings
    /\ accelKp' = AttitudeSettings.AccelKp
    /\ accelKi' = AttitudeSettings.AccelKi
    /\ yawBiasRate' = AttitudeSettings.YawBiasRate
    /\ zero_during_arming' = AttitudeSettings.ZeroDuringArming
    /\ cbpc' = "bias"
    /\ UNCHANGED << esc, mcp, insVars, slowVars,
                    tick, queueVars, sensorVars, rotate, AttitudeSettings,
                    taskVars, outVars, FlightStatus, env >>

\* Lines 601-606: GyrosBias from the settings.
CbBias ==
    /\ cbpc = "bias"
    /\ GyrosBias' = SettingsGyroBias(cbLocal)
    /\ cbpc' = "rot"
    /\ UNCHANGED << esc, mcp, insVars, slowVars,
                    tick, queueVars, sensorVars, gainVars, AttitudeSettings,
                    cbPending, cbLocal, taskVars, AttitudeActual, alarm,
                    mag_err, FlightStatus, env >>

\* Lines 608-624: board rotation.
CbRotation ==
    /\ cbpc = "rot"
    /\ rotate' = SettingsRotate(cbLocal)
    /\ cbpc' = "idle"
    /\ UNCHANGED << esc, mcp, insVars, slowVars,
                    tick, queueVars, sensorVars, accelKp, accelKi,
                    yawBiasRate, zero_during_arming, AttitudeSettings,
                    cbPending, cbLocal, taskVars, outVars, FlightStatus, env >>

\* ------------------------------------------------------------------------
\* AttitudeTask
\* ------------------------------------------------------------------------

\* Lines 186-194: clear the alarm, run settingsUpdatedCb in the task's own
\* context, first_run = true, vTaskDelay(100).
TaskStart ==
    /\ pc = "start"
    /\ alarm' = "CLEAR"
    /\ accelKp' = AttitudeSettings.AccelKp
    /\ accelKi' = AttitudeSettings.AccelKi
    /\ yawBiasRate' = AttitudeSettings.YawBiasRate
    /\ zero_during_arming' = AttitudeSettings.ZeroDuringArming
    /\ GyrosBias' = SettingsGyroBias(AttitudeSettings)
    /\ rotate' = SettingsRotate(AttitudeSettings)
    /\ first_run' = TRUE
    /\ tick' = tick + StartDelayTicks
    /\ pc' = "wait"
    /\ UNCHANGED << esc, mcp, insVars, slowVars,
                    queueVars, sensorVars, cbVars, init, timeval, passes, wdg,
                    loc, last, AttitudeActual, mag_err, FlightStatus, env >>


\* ------------------------------------------------------------------------
\* updateAttitudeComplimentary: its computations
\* ------------------------------------------------------------------------

\* A failure path that leaves the alarm as it was: not what the code does.
FailsafeAlarmMissing(a) == a

\* Lines 229-239: a failed wait sets the alarm to WARNING.
FailsafeAlarm(a) == "WARNING"

\* A failure path that resets the attitude: not what the code does.
FailsafeAttitudeReset(att) ==
    [q |-> Identity, rpy |-> Quaternion2RPY(Identity)]

\* Lines 229-239: a failed wait returns before anything of AttitudeActual is
\* written.
FailsafeAttitude(att) == att

\* Timeout of the accelerometer receive, line 234.
AccelWaitMs == 0

\* Which branch of the gain policy (lines 247-263) an iteration takes.
GainBranch(i, t, zda, armed) ==
    IF (i = 0 /\ t < WarmupEndTick) /\ t > WarmupStartTick THEN "warmup"
    ELSE IF zda /\ armed = "ARMING" THEN "arming"
    ELSE IF i = 0 THEN "reload"
    ELSE "keep"

\* Lines 283-294: gravity rotated to the body frame, crossed with the
\* accelerometer reading, divided by the reading's magnitude.
GravityError(q, accels) ==
    LET grot == << Neg(Mul(Two, Sub(Mul(q[2], q[4]), Mul(q[1], q[3])))),
                   Neg(Mul(Two, Add(Mul(q[3], q[4]), Mul(q[1], q[2])))),
                   Neg(Add(Sub(Sub(Mul(q[1], q[1]), Mul(q[2], q[2])),
                               Mul(q[3], q[3])), Mul(q[4], q[4]))) >>
        accel_err == CrossProduct(accels, grot)
        accel_mag == VecLen(accels)
    IN  VecDiv(accel_err, accel_mag)

\* Lines 299-323: the reference field rotated to the body frame and the
\* magnetometer reading, both normalised, crossed.
MagError(q, mag, Be) ==
    LET Rbe == Quaternion2R(q)
        brot == rot_mult(Rbe, Be)
        mag_len == VecLen(mag)
        magn == VecDiv(mag, mag_len)
        bmag == VecLen(brot)
        brotn == VecDiv(brot, bmag)
    IN  IF Lt(bmag, SC) \/ Lt(mag_len, SC)
        THEN Zero3
        ELSE CrossProduct(magn, brotn)

\* Lines 296-326: mag_err, given whether the receive from magQueue
\* returned pdTRUE.
MagErrOnPoll(received, q, mag, Be) ==
    IF ~received THEN MagError(q, mag, Be) ELSE Zero3

\* An accumulator that takes the magnetic error on every axis: not what the
\* code does.
BiasAccumulateAllAxes(bias, accel_err, magerr, Ki) ==
    [i \in 1..3 |-> Add(bias[i], Mul(Add(accel_err[i], magerr[i]), Ki))]

\* Lines 331-333.
BiasAccumulate(bias, accel_err, magerr, Ki) ==
    << Add(bias[1], Mul(accel_err[1], Ki)),
       Add(bias[2], Mul(accel_err[2], Ki)),
       Add(bias[3], Mul(magerr[3], magKi)) >>

\* Lines 337-339.
RateCorrect(g, accel_err, magerr, Kp, dT) ==
    << Add(g[1], Div(Mul(accel_err[1], Kp), dT)),
       Add(g[2], Div(Mul(accel_err[2], Kp), dT)),
       Add(g[3], Add(Div(Mul(accel_err[3], Kp), dT),
                     Div(Mul(magerr[3], magKp), dT))) >>

\* x * dT * F_PI / 180 / 2
QdotScale(x, dT) ==
    Div(Div(Mul(Mul(x, dT), F_PI), IntToFloat(180)), IntToFloat(2))

\* Lines 343-353: one time step of the quaternion.
Integrate(q, g, dT) ==
    LET qdot ==
          << QdotScale(Sub(Sub(Mul(Neg(q[2]), g[1]), Mul(q[3], g[2])),
                           Mul(q[4], g[3])), dT),
             QdotScale(Add(Sub(Mul(q[1], g[1]), Mul(q[4], g[2])),
                           Mul(q[3], g[3])), dT),
             QdotScale(Sub(Add(Mul(q[4], g[1]), Mul(q[1], g[2])),
                           Mul(q[2], g[3])), dT),
             QdotScale(Add(Add(Mul(Neg(q[3]), g[1]), Mul(q[2], g[2])),
                           Mul(q[1], g[3])), dT) >>
    IN  [i \in 1..4 |-> Add(q[i], qdot[i])]

\* Lines 355-360.
Canonical(q) == IF Lt(q[1], 0) THEN [i \in 1..4 |-> Neg(q[i])] ELSE q

\* Line 363.
Qmag(q) ==
    Sqrtf(Add(Add(Add(Mul(q[1], q[1]), Mul(q[2], q[2])), Mul(q[3], q[3])),
              Mul(q[4], q[4])))

\* 1.0e-3f
QmagMin == SC \div 1000

\* A renormalisation without the reinitialisation: not what the code does.
RenormalizeOnly(q) == [i \in 1..4 |-> Div(q[i], Qmag(q))]

\* Lines 364-376: divide by the length; reinitialise when the length is
\* short or NaN.
Renormalize(q) ==
    LET qmag == Qmag(q)
    IN  IF Lt(Fabs(qmag), QmagMin) \/ IsNaN(qmag)
        THEN Identity
        ELSE [i \in 1..4 |-> Div(q[i], qmag)]

\* ------------------------------------------------------------------------
\* updateAttitudeComplimentary: its steps, and the loop's bookkeeping
\* (lines 205-208) at each return
\* ------------------------------------------------------------------------

\* A loop that stops when the estimator returns -1: not what the code does.
LoopStopsOnFailure(ret) == IF ret = 0 THEN "wait" ELSE "stopped"

\* A loop that takes the INS/GPS branch once first_run is cleared: not what
\* the code does.
EstimatorAfterFirstRun(firstRun) ==
    IF firstRun THEN "complementary" ELSE "insgps"

\* Lines 200-203: the estimator the next pass of the loop calls; the
\* condition of line 200 is the literal 1.
LoopEstimator(firstRun) == "complementary"

\* Lines 197-209: whatever the estimator returns, the loop clears first_run,
\* updates the watchdog flag and calls the estimator again.
LoopAfter(ret) == "wait"

\* Lines 229-233: the gyro wait expires, n times in a row.
CompGyroTimeout ==
    /\ pc = "wait"
    /\ estimator = "complementary"
    /\ passes < MaxPass
    /\ gyroQueue = 0
    /\ \E n \in TimeoutRuns :
          /\ tick' = tick + n * FAILSAFE_TIMEOUT_MS
          /\ wdg' = wdg + n
    /\ alarm' = FailsafeAlarm(alarm)
    /\ AttitudeActual' = FailsafeAttitude(AttitudeActual)
    /\ first_run' = FALSE
    /\ passes' = passes + 1
    /\ last' = [NoLast EXCEPT !.result = "gyro_timeout",
                              !.waited = FAILSAFE_TIMEOUT_MS,
                              !.prev = last.result]
    /\ pc' = LoopAfter(-1)
    /\ estimator' = LoopEstimator(first_run')
    /\ UNCHANGED << esc, mcp, insState, slowVars, queueVars, sensorVars, gainVars,
                    cbVars, init, timeval, loc, GyrosBias, mag_err,
                    FlightStatus, env >>

\* Lines 229-239: a gyro event is received, no accel event is.
CompAccelAbsent ==
    /\ pc = "wait"
    /\ estimator = "complementary"
    /\ gyroQueue > 0
    /\ accelQueue = 0
    /\ gyroQueue' = gyroQueue - 1
    /\ tick' = tick + AccelWaitMs
    /\ alarm' = FailsafeAlarm(alarm)
    /\ AttitudeActual' = FailsafeAttitude(AttitudeActual)
    /\ first_run' = FALSE
    /\ passes' = passes + 1
    /\ wdg' = wdg + 1
    /\ last' = [NoLast EXCEPT !.result = "accel_absent",
                              !.waited = AccelWaitMs,
                              !.prev = last.result]
    /\ pc' = LoopAfter(-1)
    /\ estimator' = LoopEstimator(first_run')
    /\ UNCHANGED << esc, mcp, insState, slowVars, accelQueue, magQueue, baroQueue,
                    gpsQueue, sensorVars, gainVars, cbVars, init, timeval,
                    loc, GyrosBias, mag_err, FlightStatus, env >>

\* Lines 229-263: both events received; the gain policy.
CompPolicy ==
    /\ pc = "wait"
    /\ estimator = "complementary"
    /\ gyroQueue > 0
    /\ accelQueue > 0
    /\ gyroQueue' = gyroQueue - 1
    /\ accelQueue' = accelQueue - 1
    /\ LET i == IF first_run THEN 0 ELSE init
           b == GainBranch(i, tick, zero_during_arming, FlightStatus)
       IN  /\ accelKp' = CASE b \in {"warmup", "arming"} -> AggressiveKp
                           [] b = "reload" -> AttitudeSettings.AccelKp
                           [] OTHER -> accelKp
           /\ accelKi' = CASE b \in {"warmup", "arming"} -> AggressiveKi
                           [] b = "reload" -> AttitudeSettings.AccelKi
                           [] OTHER -> accelKi
           /\ yawBiasRate' =
                  CASE b \in {"warmup", "arming"} -> AggressiveYawBiasRate
                    [] b = "reload" -> AttitudeSettings.YawBiasRate
                    [] OTHER -> yawBiasRate
           /\ init' = CASE b = "arming" -> 0
                        [] b = "reload" -> 1
                        [] OTHER -> i
           /\ loc' = [NoLoc EXCEPT !.tickAtPolicy = tick,
                                   !.armingAtPolicy =
                                       (zero_during_arming
                                          /\ FlightStatus = "ARMING"),
                                   !.branch = b,
                                   !.policyKp = accelKp',
                                   !.policyKi = accelKi',
                                   !.policyYaw = yawBiasRate']
    /\ pc' = "sample"
    /\ UNCHANGED << esc, mcp, insVars, slowVars,
                    tick, magQueue, baroQueue, gpsQueue, sensorVars,
                    zero_during_arming, rotate, cbVars, first_run, timeval,
                    passes, wdg, last, outVars, FlightStatus, env >>


\* A time step capped at the failsafe timeout: not what the code does.
TimeStepCapped(now, then) ==
    IF now - then > FAILSAFE_TIMEOUT_MS THEN FAILSAFE_TIMEOUT_MS
    ELSE now - then

\* Line 268: PIOS_DELAY_DiffuS(timeval) / 1000000.0f, here in ms.
ElapsedSince(now, then) == Clamp(now - then)

\* Lines 265-330: read the samples, the time step, the two error vectors,
\* and GyrosBiasGet.
CompSample ==
    /\ pc = "sample"
    /\ LET q == AttitudeActual.q
           received == magQueue > 0
       IN  /\ mag_err' = MagErrOnPoll(received, q, Magnetometer, HomeBe)
           /\ magQueue' = IF received THEN magQueue - 1 ELSE magQueue
           /\ loc' = [loc EXCEPT !.gyrosData = Gyros,
                                 !.accelsData = Accels,
                                 !.dT = ElapsedSince(tick, timeval),
                                 !.q = q,
                                 !.accel_err = GravityError(q, Accels),
                                 !.magFresh = received,
                                 !.gyrosBias = GyrosBias]
    /\ timeval' = tick
    /\ pc' = "bias"
    /\ UNCHANGED << esc, mcp, insVars, slowVars,
                    tick, gyroQueue, accelQueue, baroQueue, gpsQueue,
                    sensorVars, gainVars, cbVars, first_run, init, passes,
                    wdg, last, AttitudeActual, GyrosBias, alarm,
                    FlightStatus, env >>

\* Lines 331-334: accumulate into the local copy and GyrosBiasSet.
CompBias ==
    /\ pc = "bias"
    /\ GyrosBias' = BiasAccumulate(loc.gyrosBias, loc.accel_err, mag_err,
                                   accelKi)
    /\ loc' = [loc EXCEPT !.usedKi = accelKi]
    /\ pc' = "update"
    /\ UNCHANGED << esc, mcp, insVars, slowVars,
                    tick, queueVars, sensorVars, gainVars, cbVars, first_run,
                    init, timeval, passes, wdg, last, AttitudeActual, alarm,
                    mag_err, FlightStatus, env >>

\* Lines 337-395 and 205-208: rate correction, time step, renormalisation,
\* publication, flush of the baro and GPS queues, alarm cleared.
CompUpdate ==
    /\ pc = "update"
    /\ LET g == RateCorrect(loc.gyrosData, loc.accel_err, mag_err, accelKp,
                            loc.dT)
           q == Renormalize(Canonical(Integrate(loc.q, g, loc.dT)))
       IN  AttitudeActual' = [q |-> q, rpy |-> Quaternion2RPY(q)]
    /\ baroQueue' = 0
    /\ gpsQueue' = 0
    /\ alarm' = "CLEAR"
    /\ first_run' = FALSE
    /\ passes' = passes + 1
    /\ wdg' = wdg + 1
    /\ last' = [result |-> "ok", usedKi |-> loc.usedKi, usedKp |-> accelKp,
                dT |-> loc.dT, magFresh |-> loc.magFresh,
                accel_err |-> loc.accel_err, gyrosData |-> loc.gyrosData,
                tickAtPolicy |-> loc.tickAtPolicy,
                armingAtPolicy |-> loc.armingAtPolicy,
                branch |-> loc.branch, policyKp |-> loc.policyKp,
                policyKi |-> loc.policyKi, policyYaw |-> loc.policyYaw,
                mag_err |-> mag_err,
                rate |-> RateCorrect(loc.gyrosData, loc.accel_err, mag_err,
                                     accelKp, loc.dT),
                qmag |-> Qmag(Canonical(Integrate(
                            loc.q,
                            RateCorrect(loc.gyrosData, loc.accel_err,
                                        mag_err, accelKp, loc.dT),
                            loc.dT))),
                waited |-> 0, prev |-> last.result]
    /\ loc' = NoLoc
    /\ pc' = LoopAfter(0)
    /\ estimator' = LoopEstimator(first_run')
    /\ UNCHANGED << esc, mcp, insState, slowVars,
                    tick, gyroQueue, accelQueue, magQueue, sensorVars,
                    gainVars, cbVars, init, timeval, GyrosBias, mag_err,
                    FlightStatus, env >>

\* ------------------------------------------------------------------------
\* The program with the complementary filter (AttitudeTask, line 200)
\* ------------------------------------------------------------------------

Next ==
    \/ GyroPublish \/ AccelPublish \/ MagPublish \/ BaroPublish \/ GPSPublish
    \/ SettingsSet \/ FlightStatusSet
    \/ CbGains \/ CbBias \/ CbRotation
    \/ TaskStart
    \/ CompGyroTimeout \/ CompAccelAbsent \/ CompPolicy
    \/ CompSample \/ CompBias \/ CompUpdate

Spec == Init /\ [][Next]_vars

\* The steps the attitude task takes from its waits, and its bias step.
TaskNext ==
    \/ TaskStart
    \/ CompGyroTimeout \/ CompAccelAbsent \/ CompPolicy \/ CompBias

\* The scheduler runs the attitude task whenever it is ready: its waits
\* have timeouts, so it is ready again at the latest when one expires.
\* CompSample and CompUpdate are enabled exactly at their own position and
\* leave it, so their weak fairness is that position not being held for
\* ever.
SpecLive ==
    /\ Spec
    /\ WF_vars(TaskNext)
    /\ []<>(pc # "sample")
    /\ []<>(pc # "update")


\* ------------------------------------------------------------------------
\* The INS library (insgps.h), as far as updateAttitudeINSGPS relies on it
\* ------------------------------------------------------------------------

\* Unit quaternions the filter's attitude state may take.
InsQuats == { Identity, << -SC, 0, 0, 0 >> }
\* Values a component of the filter's gyro-bias state may take.
InsBiasValues == { 0, 50, 200 }
InsBiasVectors ==
    { << 0, 0, 0 >>, << 50, 0, 0 >>, << 200, 50, 0 >> }

\* cosf and sinf of a heading in degrees, for the headings that are used.
CosDeg(h) == IF h = 0 THEN SC ELSE IF h = 90 THEN 0 ELSE -SC
SinDeg(h) == IF h = 0 THEN 0 ELSE IF h = 90 THEN SC ELSE 0

\* INSGPSInit, INSSetState, INSSetGyroBias, INSResetP: the seeded solution.
INSSeed(NED, vel, q, gyro_bias) ==
    [Pos |-> NED, Vel |-> vel, q |-> q, gyro_bias |-> gyro_bias]

\* INSStatePrediction: the solutions one prediction step may give.
INSStatePrediction(nav, gyros, accels, dT) ==
    { [nav EXCEPT !.q = qq] : qq \in InsQuats }

\* INSCorrection: the solutions one correction with the given sensor mask
\* may give.  Position and velocity take the GPS measurement when the mask
\* has the horizontal and vertical channels.
INSCorrection(nav, mag, NED, vel, baro, sensors) ==
    { [Pos |-> IF "HORIZ" \in sensors THEN NED ELSE nav.Pos,
       Vel |-> IF "HORIZ" \in sensors THEN vel ELSE nav.Vel,
       q |-> nav.q,
       gyro_bias |-> IF sensors = {} THEN nav.gyro_bias ELSE b]
      : b \in InsBiasVectors }

\* INSSetGyroBias
INSSetGyroBias(nav, b) == [nav EXCEPT !.gyro_bias = b]

\* RotFrom2Vectors and R2Quaternion: the attitudes the two-vector alignment
\* may give.
InitialAttitudes(accels, ge, mag, Be) == { q \in InsQuats : q[1] >= 0 }

\* ------------------------------------------------------------------------
\* updateAttitudeINSGPS
\* ------------------------------------------------------------------------

\* Timeout of the accelerometer receive, line 417.
InsAccelWaitMs == 10

\* Lines 463-465.
GpsVelocity(gps) ==
    << Mul(gps.Groundspeed, CosDeg(gps.Heading)),
       Mul(gps.Groundspeed, SinDeg(gps.Heading)), 0 >>

\* A time step used as measured: not what the code does.
ElapsedUnclamped(dT) == dT

\* Lines 491-494; 0.01f is 10 and 0.001f is 1 at this resolution.
ClampDT(dT) ==
    IF Gt(dT, SC \div 100) THEN SC \div 100
    ELSE IF Le(dT, SC \div 1000) THEN SC \div 1000
    ELSE dT

\* Lines 526-536: the sensor mask.
SensorMask(mag_u, baro_u, gps_u) ==
    LET m1 == IF mag_u THEN {"MAG"} ELSE {}
        m2 == IF baro_u THEN m1 \cup {"BARO"} ELSE m1
    IN  IF gps_u THEN {"HORIZ", "VERT"} ELSE m2

\* A guard that never resets the bias: not what the code does.
BiasGuardOff(nav) == nav

\* Lines 576-579: the stability guard.
BiasGuard(nav) ==
    IF Gt(Fabs(nav.gyro_bias[1]), SC \div 10)
         \/ Gt(Fabs(nav.gyro_bias[2]), SC \div 10)
         \/ Gt(Fabs(nav.gyro_bias[3]), SC \div 10)
    THEN INSSetGyroBias(nav, Zero3)
    ELSE nav

\* Lines 430-441: the values the freshness flags may have before the polls
\* are or-ed in.  mag_updated and baro_updated are assigned 0 only when
\* inited; gps_updated is never assigned: an unassigned flag may read as
\* either value.
FlagStart(i) ==
    { f \in [mag : BOOLEAN, baro : BOOLEAN, gps : BOOLEAN] :
        i => (~f.mag /\ ~f.baro) }

\* Lines 416-421: the gyro wait expires, n times in a row.
InsGyroTimeout ==
    /\ pc = "wait"
    /\ passes < MaxPass
    /\ gyroQueue = 0
    /\ \E n \in TimeoutRuns :
          /\ tick' = tick + n * FAILSAFE_TIMEOUT_MS
          /\ wdg' = wdg + n
    /\ alarm' = "WARNING"
    /\ inited' = IF first_run THEN FALSE ELSE inited
    /\ first_run' = FALSE
    /\ passes' = passes + 1
    /\ last' = [NoLast EXCEPT !.result = "gyro_timeout",
                              !.waited = FAILSAFE_TIMEOUT_MS,
                              !.prev = last.result]
    /\ UNCHANGED << esc, mcp, queueVars, sensorVars, slowVars, gainVars, cbVars, pc,
                    init, timeval, loc, AttitudeActual, GyrosBias, mag_err,
                    FlightStatus, env, estimator, ins_last_time, Nav,
                    PositionActual, VelocityActual, ins >>

\* Line 416: the gyro event is received; the accel wait begins.
InsGyroRecv ==
    /\ pc = "wait"
    /\ gyroQueue > 0
    /\ gyroQueue' = gyroQueue - 1
    /\ inited' = IF first_run THEN FALSE ELSE inited
    /\ pc' = "ins_accel"
    /\ UNCHANGED << esc, mcp, tick, accelQueue, magQueue, baroQueue, gpsQueue,
                    sensorVars, slowVars, gainVars, cbVars, first_run, init,
                    timeval, passes, wdg, loc, last, outVars, FlightStatus,
                    env, estimator, ins_last_time, Nav, PositionActual,
                    VelocityActual, ins >>

\* Lines 417-421: the accel wait expires.
InsAccelTimeout ==
    /\ pc = "ins_accel"
    /\ accelQueue = 0
    /\ tick' = tick + InsAccelWaitMs
    /\ alarm' = "WARNING"
    /\ first_run' = FALSE
    /\ passes' = passes + 1
    /\ wdg' = wdg + 1
    /\ last' = [NoLast EXCEPT !.result = "accel_absent",
                              !.waited = InsAccelWaitMs,
                              !.prev = last.result]
    /\ pc' = "wait"
    /\ UNCHANGED << esc, mcp, queueVars, sensorVars, slowVars, gainVars, cbVars, init,
                    timeval, loc, AttitudeActual, GyrosBias, mag_err,
                    FlightStatus, env, insVars >>

\* What the three polls of lines 439-441 leave in the queues.
InsPolled ==
    /\ accelQueue' = accelQueue - 1
    /\ magQueue' = 0
    /\ baroQueue' = 0
    /\ gpsQueue' = 0
    /\ UNCHANGED gyroQueue

InsFlags(f) ==
    [mag_updated |-> f.mag \/ magQueue > 0,
     baro_updated |-> f.baro \/ baroQueue > 0,
     gps_updated |-> f.gps \/ gpsQueue > 0,
     magRecv |-> magQueue > 0,
     baroRecv |-> baroQueue > 0,
     gpsRecv |-> gpsQueue > 0]

InsReturn(result) ==
    /\ first_run' = FALSE
    /\ passes' = passes + 1
    /\ wdg' = wdg + 1
    /\ last' = [NoLast EXCEPT !.result = result, !.prev = last.result]
    /\ pc' = "wait"

\* Lines 423-446: not yet initialised and a flag is false; return -1.
InsInitIncomplete ==
    /\ pc = "ins_accel"
    /\ accelQueue > 0
    /\ ~inited
    /\ \E f \in FlagStart(inited) :
          LET fl == InsFlags(f)
          IN  /\ ~fl.mag_updated \/ ~fl.baro_updated \/ ~fl.gps_updated
              /\ ins' = [NoIns EXCEPT !.result = "init_incomplete",
                                      !.mag_updated = fl.mag_updated,
                                      !.baro_updated = fl.baro_updated,
                                      !.gps_updated = fl.gps_updated,
                                      !.magRecv = fl.magRecv,
                                      !.baroRecv = fl.baroRecv,
                                      !.gpsRecv = fl.gpsRecv]
    /\ InsPolled
    /\ InsReturn("init_incomplete")
    /\ UNCHANGED << esc, mcp, tick, sensorVars, slowVars, gainVars, cbVars, init,
                    timeval, loc, outVars, FlightStatus, env, estimator,
                    inited, ins_last_time, Nav, PositionActual,
                    VelocityActual >>

\* Lines 423-481: not yet initialised and the three flags are true; seed the
\* filter and return 0.
InsInitialize ==
    /\ pc = "ins_accel"
    /\ accelQueue > 0
    /\ ~inited
    /\ \E f \in FlagStart(inited) :
          LET fl == InsFlags(f)
          IN  /\ fl.mag_updated /\ fl.baro_updated /\ fl.gps_updated
              /\ ins' = [NoIns EXCEPT !.result = "initialized",
                                      !.mag_updated = fl.mag_updated,
                                      !.baro_updated = fl.baro_updated,
                                      !.gps_updated = fl.gps_updated,
                                      !.magRecv = fl.magRecv,
                                      !.baroRecv = fl.baroRecv,
                                      !.gpsRecv = fl.gpsRecv]
    /\ inited' = TRUE
    /\ \E q \in InitialAttitudes(Accels, << 0, 0, -9810 >>, Magnetometer,
                                 HomeBe) :
          Nav' = INSSetGyroBias(
                     INSSeed(GPSPosition.NED, GpsVelocity(GPSPosition), q,
                             Gyros),
                     Gyros)
    /\ ins_last_time' = tick
    /\ InsPolled
    /\ InsReturn("initialized")
    /\ UNCHANGED << esc, mcp, tick, sensorVars, slowVars, gainVars, cbVars, init,
                    timeval, loc, outVars, FlightStatus, env, estimator,
                    PositionActual, VelocityActual >>

\* Lines 423-443 and 483-582: one predictor/corrector iteration.
InsUpdate ==
    /\ pc = "ins_accel"
    /\ accelQueue > 0
    /\ inited
    /\ \E f \in FlagStart(inited) :
          LET fl == InsFlags(f)
              dT == ClampDT(Clamp(tick - ins_last_time))
              gyros == [i \in 1..3 |->
                          Div(Mul(Add(Gyros[i], GyrosBias[i]), F_PI),
                              IntToFloat(180))]
              sensors == SensorMask(fl.mag_updated, fl.baro_updated,
                                    fl.gps_updated)
              NED == IF fl.gps_updated THEN GPSPosition.NED ELSE Zero3
              vel == IF fl.gps_updated THEN GpsVelocity(GPSPosition)
                                       ELSE Zero3
          IN  \E predicted \in INSStatePrediction(Nav, gyros, Accels, dT) :
              \E corrected \in INSCorrection(predicted, Magnetometer, NED,
                                             vel, BaroAltitude, sensors) :
                 /\ AttitudeActual' = [q |-> predicted.q,
                                       rpy |-> Quaternion2RPY(predicted.q)]
                 /\ GyrosBias' = predicted.gyro_bias
                 /\ PositionActual' = corrected.Pos
                 /\ VelocityActual' = corrected.Vel
                 /\ Nav' = BiasGuard(corrected)
                 /\ ins' = [result |-> "updated",
                            mag_updated |-> fl.mag_updated,
                            baro_updated |-> fl.baro_updated,
                            gps_updated |-> fl.gps_updated,
                            magRecv |-> fl.magRecv,
                            baroRecv |-> fl.baroRecv,
                            gpsRecv |-> fl.gpsRecv,
                            sensors |-> sensors,
                            elapsed |-> Clamp(tick - ins_last_time),
                            dT |-> dT, covDT |-> dT,
                            corrected |-> corrected]
    /\ ins_last_time' = tick
    /\ InsPolled
    /\ InsReturn("ok")
    /\ UNCHANGED << esc, mcp, tick, sensorVars, slowVars, gainVars, cbVars, init,
                    timeval, loc, alarm, mag_err, FlightStatus, env,
                    estimator, inited >>

\* ------------------------------------------------------------------------
\* The program with the INS/GPS estimator: the task loop taking the branch
\* of line 203.  AttitudeSettings is left as AttitudeTask read it at start:
\* of what settingsUpdatedCb writes, updateAttitudeINSGPS reads only
\* GyrosBias (line 498), which goes into the prediction, whose result is
\* left open here anyway.
\* ------------------------------------------------------------------------

InitINS == InitCommon /\ estimator = "insgps"

NextINS ==
    \/ GyroPublish \/ AccelPublish \/ MagPublish \/ BaroPublish \/ GPSPublish
    \/ TaskStart
    \/ InsGyroTimeout \/ InsGyroRecv \/ InsAccelTimeout
    \/ InsInitIncomplete \/ InsInitialize \/ InsUpdate

SpecINS == InitINS /\ [][NextINS]_vars


\* ------------------------------------------------------------------------
\* The speed controller (include/rtslam/hardwareEstimatorMti.hpp, lines
\* 100-560): main and its startup state machine, the commutation timer
\* interrupt, the ADC callback and process_message.  Its state is the record
\* esc; pcm is the position of main, adc the position of the ADC callback.
\* ------------------------------------------------------------------------

\* Line 129.
initial_startup_speed == 150
\* Line 130.
final_startup_speed == 1000
\* Line 274: current_speed += 2.0
SpeedStep == 2
\* Line 285: init_counter++ > 2000
InitWaitLimit == 2000
\* Line 433: consecutive_detected > 200
ClosedLoopDetects == 200
\* Line 418: consecutive_skipped > 50
SkippedLimit == 50
\* Line 242: consecutive_nondetects > 50
NondetectLimit == 50
\* Line 236: fail_count++ > 50
FailCountLimit == 50

\* Line 268: PIOS_ESC_SetDutyCycle(0.2)
DcGrab == 20000000
\* Line 269: dc = 0.12
DcStartup == 12000000
\* Line 282: dc = 0.1 + (dc - 0.1) * 0.999
DcWaitFloor == 10000000
\* Line 252: dc > 0.05
DcLow == 5000000
\* Line 252: dc < 0.20
DcHigh == 20000000
\* Line 133.
desired_closed_delay == 1000
\* Line 430: zerocrossing_stats.interval < 10000
IntervalLimit == 10000

\* The times between two zero crossings, in microseconds, that the motor
\* may produce: the least and the greatest that line 430 lets through.
Intervals == {0, IntervalLimit - 1}

\* uint16_t counters wrap.  The uint32_t counters of zerocrossing_stats stay
\* below a few thousand in every behaviour of the model, far from their wrap
\* at 2^32, so they are plain integers.
U16(n) == n % 65536
U32(n) == n

\* The six commutation states of enum pios_esc_state.
EscStates == 0..5

\* Lines 376-403: the state process_message wants the previous message to
\* have had, for each state of the new message.
ExpectedPrev(s) ==
    CASE s = 1 -> 3
      [] s = 0 -> 1
      [] s = 5 -> 0
      [] s = 4 -> 5
      [] s = 2 -> 4
      [] s = 3 -> 2

\* A test that finds every message in order: not what the code does.
NeverSkipped(s, prev) == FALSE

\* Lines 375-403: skipped, for a message of state s after one of state prev.
Skipped(s, prev) == s \in EscStates /\ prev # ExpectedPrev(s)

\* PIOS_ESC_NextState: the driver commutates in the order process_message
\* expects.
PIOS_ESC_NextState(s) == CHOOSE t \in EscStates : ExpectedPrev(t) = s

\* Lines 344-351 and 159-163: the timer interrupt calls commutate.
Commutate(e) ==
    [e EXCEPT !.state = PIOS_ESC_NextState(@), !.commutated = TRUE,
              !.reports = 0]

\* PIOS_ESC_SetDutyCycle: the driver takes the duty cycle it is given.
PIOS_ESC_SetDutyCycle(e, d) ==
    [e EXCEPT !.duty = d,
              !.duty_lo = IF d < @ THEN d ELSE @,
              !.duty_hi = IF d > @ THEN d ELSE @]

\* A closed loop that applies whatever dc has become: not what the code
\* does.
DutyUnchecked(d) == TRUE

\* Line 252: the duty cycles the closed loop applies.
DutyInRange(d) == d > DcLow /\ d < DcHigh

\* Lines 251-253: dc follows the difference between the smoothed interval
\* and the desired one and is applied while it is in range.
ClosedLoopDuty(e) ==
    LET d == e.dc + (e.smoothed_interval - desired_closed_delay)
        e1 == [e EXCEPT !.dc = d]
    IN  IF DutyInRange(d) THEN PIOS_ESC_SetDutyCycle(e1, d) ELSE e1

\* Lines 223-254: main handles a commutation in closed loop.
ClosedLoopPass(e) ==
    LET nd == IF ~e.commutation_detected
              THEN U16(e.consecutive_nondetects + 1) ELSE 0
        late == ~e.closed_loop_updated
    IN  [ClosedLoopDuty(e) EXCEPT
                  !.consecutive_nondetects = nd,
                  !.fail_count = IF late THEN U16(@ + 1) ELSE @,
                  !.closed_loop_updated = FALSE,
                  !.on = IF (late /\ e.fail_count > FailCountLimit)
                              \/ nd > NondetectLimit
                         THEN FALSE ELSE @,
                  !.timer = IF nd > NondetectLimit THEN FALSE ELSE @]

\* A wait for closed loop without a limit: not what the code does.
WaitNeverExpires(counter) == FALSE

\* Line 285: the test of init_counter, before its increment.
WaitExpired(counter) == counter > InitWaitLimit

\* A startup machine that starts over instead of failing: not what the
\* code does.
StartupRestarts(e) ==
    IF e.init_state = "INIT_WAIT" /\ e.init_counter > InitWaitLimit
    THEN [e EXCEPT !.init_state = "INIT_GRAB", !.init_counter = 0]
    ELSE IF e.init_state = "INIT_GRAB"
    THEN [e EXCEPT !.init_state = "INIT_ACCEL"]
    ELSE [e EXCEPT !.init_counter = U16(@ + 1),
                   !.init_state = IF @ = "INIT_ACCEL" THEN "INIT_WAIT" ELSE @]

\* Line 282: dc = 0.1 + (dc - 0.1) * 0.999
WaitDuty(d) == DcWaitFloor + ((d - DcWaitFloor) * 999) \div 1000

\* Lines 255-295: main handles a commutation in open loop, the startup
\* state machine.
StartupPass(e) ==
    CASE e.init_state = "INIT_GRAB" ->
            [PIOS_ESC_SetDutyCycle(e, DcGrab) EXCEPT
                      !.state = 0,
                      !.reports = 0,
                      !.current_speed = initial_startup_speed,
                      !.dc = DcStartup,
                      !.init_state = "INIT_ACCEL"]
      [] e.init_state = "INIT_ACCEL" ->
            [PIOS_ESC_SetDutyCycle(e, e.dc) EXCEPT
                      !.current_speed =
                          IF @ < final_startup_speed THEN @ + SpeedStep
                          ELSE @,
                      !.init_state =
                          IF e.current_speed < final_startup_speed THEN @
                          ELSE "INIT_WAIT",
                      !.init_counter = 0]
      [] e.init_state = "INIT_WAIT" ->
            [PIOS_ESC_SetDutyCycle(e, WaitDuty(e.dc)) EXCEPT
                      !.dc = WaitDuty(e.dc),
                      !.init_counter = U16(@ + 1),
                      !.init_state = IF WaitExpired(e.init_counter)
                                     THEN "INIT_FAIL" ELSE @]
      [] e.init_state = "INIT_FAIL" ->
            [e EXCEPT !.on = FALSE]

\* Lines 220-221: main sees commutated and clears it.
MainTake(e) == [e EXCEPT !.commutated = FALSE, !.pcm = "handling"]

\* Lines 223-296: main handles the commutation in the mode closed_loop
\* selects.
MainPass(e) ==
    LET e1 == [e EXCEPT !.pcm = "finish"]
    IN  IF e.closed_loop THEN ClosedLoopPass(e1)
        ELSE [StartupPass(e1) EXCEPT !.handled = @ + 1]

\* Lines 220-296 with no interrupt in between.
MainHandle(e) == MainPass(MainTake(e))

\* Lines 297-338: the pins of the new state (the driver is switched off for
\* a state that is none of the six), then commutation_detected is cleared.
MainFinish(e) ==
    [e EXCEPT !.on = IF e.state \in EscStates THEN @ ELSE FALSE,
              !.commutation_detected = FALSE,
              !.pcm = "idle"]

\* Lines 456-551: the ADC callback finds a zero crossing and posts the
\* message with the state read at line 480.
AdcPost(e) ==
    [e EXCEPT !.commutation_detected = TRUE,
              !.message = [state |-> e.state, read |-> FALSE],
              !.reports = @ + 1,
              !.adc = "posted"]

\* A mode that follows the count down as well as up: not what the code does.
ModeFollowsCount(closed, detected) == detected > ClosedLoopDetects

\* Lines 433-434: closed_loop is set, and never cleared, by the count of
\* consecutive detected messages.
ClosedLoopAfter(closed, detected) == closed \/ detected > ClosedLoopDetects

\* A message that stays unread when it fails the test of line 370: not
\* what the code does.
ReadUnlessStale(stale) == ~stale

\* Line 367: the message is marked read before the test of line 370, so
\* whether or not it passes.
ReadMark(stale) == TRUE

\* Lines 357-446: process_message.
process_message(e) ==
    IF e.message.read THEN [e EXCEPT !.verdict = "read"]
    ELSE IF e.message.state # e.state
    THEN [e EXCEPT !.message.read = ReadMark(TRUE), !.verdict = "stale"]
    ELSE LET skipped == Skipped(e.message.state, e.prev_state)
             det == IF skipped THEN 0 ELSE U32(e.consecutive_detected + 1)
             skp == IF skipped THEN U32(e.consecutive_skipped + 1) ELSE 0
             cl == ClosedLoopAfter(e.closed_loop, det)
         IN  [e EXCEPT !.message.read = ReadMark(FALSE),
                       !.consecutive_detected = det,
                       !.consecutive_skipped = skp,
                       !.on = IF e.closed_loop /\ skp > SkippedLimit
                              THEN FALSE ELSE @,
                       !.closed_loop = cl,
                       !.closed_loop_updated = IF cl THEN TRUE ELSE @,
                       !.smoothed_interval =
                           IF ~skipped /\ ~e.prev_skipped
                                 /\ e.interval < IntervalLimit
                           THEN (95 * @ + 5 * e.interval) \div 100 ELSE @,
                       !.prev_skipped = skipped,
                       !.prev_state = e.message.state,
                       !.verdict = IF skipped THEN "skipped"
                                   ELSE "detected",
                       !.judged_after = e.prev_state,
                       !.entered_at = IF ~e.closed_loop /\ cl THEN det
                                      ELSE @]

\* Line 552: the callback hands its message to process_message and returns.
AdcProcess(e) == [process_message(e) EXCEPT !.adc = "idle"]

\* One commutation period with main keeping up: the timer interrupt, main's
\* pass, and then, by kind, no zero crossing ("quiet"), one detected
\* ("detect"), or none in this period and one in the next ("skip").  In an
\* "early" period the zero crossing is detected before main's pass, unless
\* line 475 turns the callback away.
QuietCycle(e) == MainFinish(MainHandle(Commutate(e)))
DetectCycle(e) == AdcProcess(AdcPost(QuietCycle(e)))
EarlyCycle(e) ==
    IF e.commutation_detected THEN QuietCycle(e)
    ELSE MainFinish(MainHandle(AdcProcess(AdcPost(Commutate(e)))))

\* A period in which the next commutation comes while main is still
\* handling this one, after line 221.
OverlapCycle(e) == MainFinish(MainPass(Commutate(MainTake(Commutate(e)))))

Cycle(e, kind) ==
    IF ~e.timer THEN e
    ELSE IF kind = "quiet" THEN QuietCycle(e)
    ELSE IF kind = "detect" THEN DetectCycle(e)
    ELSE IF kind = "early" THEN EarlyCycle(e)
    ELSE IF kind = "overlap" THEN OverlapCycle(e)
    ELSE IF ~QuietCycle(e).timer THEN QuietCycle(e)
    ELSE DetectCycle(QuietCycle(e))

RECURSIVE Cycles(_, _, _)
Cycles(e, kind, n) ==
    IF n = 0 THEN e
    ELSE IF n = 1 THEN Cycle(e, kind)
    ELSE LET half == Cycles(e, kind, n \div 2)
         IN  IF half.steps = e.steps THEN Cycles(half, kind, n - n \div 2)
             ELSE half

\* The runs of like commutation periods that are modelled: single periods
\* in every state, and, while the driver is on, the lengths that carry a
\* counter or the duty cycle of the present mode past its limit.
Runs(e) ==
    { << "quiet", 1 >>, << "detect", 1 >>, << "skip", 1 >>, << "early", 1 >> }
    \cup
    ( IF ~e.on THEN {}
      ELSE IF e.closed_loop
      THEN { << "quiet", NondetectLimit + 1 >>,
             << "skip", SkippedLimit + 1 >>,
             << "overlap", NondetectLimit + 2 >>,
             << "detect", InitWaitLimit + 2 >> }
      ELSE { << "detect", ClosedLoopDetects + 1 >>,
             << "quiet", (final_startup_speed - initial_startup_speed)
                             \div SpeedStep + 1 >>,
             << "quiet", InitWaitLimit + 2 >> } )

\* Steps of the speed controller in one behaviour.
MaxSteps == 6

EscStep(e) == esc' = [e EXCEPT !.steps = esc.steps + 1]

EscBudget == esc.steps < MaxSteps

\* Lines 173-194: main up to the enabling of the timer interrupt.
EscBootTimer ==
    /\ esc.pcm = "boot"
    /\ EscBudget
    /\ EscStep([esc EXCEPT !.current_speed = initial_startup_speed,
                           !.message.read = TRUE,
                           !.timer = TRUE,
                           !.pcm = "arm"])
    /\ UNCHANGED << attVars, mcp >>

\* Lines 195-217: dc applied, the driver armed, the startup machine and the
\* mode set.  The motor's interval between zero crossings is drawn here.
EscBootArm ==
    /\ esc.pcm = "arm"
    /\ EscBudget
    /\ \E i \in Intervals :
          EscStep([esc EXCEPT !.duty = esc.dc,
                              !.duty_lo = esc.dc,
                              !.duty_hi = esc.dc,
                              !.on = TRUE,
                              !.interval = i,
                              !.init_state = "INIT_GRAB",
                              !.closed_loop = FALSE,
                              !.pcm = "idle"])
    /\ UNCHANGED << attVars, mcp >>

\* The timer interrupt has the highest priority: it runs whenever it is
\* enabled, inside main and inside the ADC callback alike.
EscCommutate ==
    /\ esc.timer
    /\ EscBudget
    /\ EscStep(Commutate(esc))
    /\ UNCHANGED << attVars, mcp >>

EscMainTake ==
    /\ esc.pcm = "idle"
    /\ esc.adc = "idle"
    /\ esc.commutated
    /\ EscBudget
    /\ EscStep(MainTake(esc))
    /\ UNCHANGED << attVars, mcp >>

EscMainHandle ==
    /\ esc.pcm = "handling"
    /\ esc.adc = "idle"
    /\ EscBudget
    /\ EscStep(MainPass(esc))
    /\ UNCHANGED << attVars, mcp >>

EscMainFinish ==
    /\ esc.pcm = "finish"
    /\ esc.adc = "idle"
    /\ EscBudget
    /\ EscStep(MainFinish(esc))
    /\ UNCHANGED << attVars, mcp >>

\* Line 475: the callback returns at once while commutation_detected is set.
EscAdcPost ==
    /\ esc.pcm # "boot"
    /\ esc.adc = "idle"
    /\ ~esc.commutation_detected
    /\ EscBudget
    /\ EscStep(AdcPost(esc))
    /\ UNCHANGED << attVars, mcp >>

EscAdcProcess ==
    /\ esc.adc = "posted"
    /\ EscBudget
    /\ EscStep(AdcProcess(esc))
    /\ UNCHANGED << attVars, mcp >>

\* n commutation periods of one kind in a row, main idle at the start.
EscRun ==
    /\ esc.pcm = "idle"
    /\ esc.adc = "idle"
    /\ ~esc.commutated
    /\ esc.timer
    /\ EscBudget
    /\ \E run \in Runs(esc) : EscStep(Cycles(esc, run[1], run[2]))
    /\ UNCHANGED << attVars, mcp >>

\* The speed controller runs on a board of its own: the flight controller's
\* objects stay as they are at reset.
InitESC ==
    /\ InitCommon
    /\ estimator = "complementary"
    /\ AttitudeSettings = SettingsA

NextESC ==
    \/ EscBootTimer \/ EscBootArm
    \/ EscCommutate \/ EscMainTake \/ EscMainHandle \/ EscMainFinish
    \/ EscAdcPost \/ EscAdcProcess
    \/ EscRun

SpecESC == InitESC /\ [][NextESC]_vars

\* ------------------------------------------------------------------------
\* MCP3424 sensor module: an 18 bit, four channel converter on the I2C bus
\* ------------------------------------------------------------------------

\* The settings objects the ground station may store: the gain option of
\* each channel and the resolution option (the module reads
\* Channel1Resolution for every channel, lines 836-848).
McpSettingsValues ==
    { [gain |-> g, Channel1Resolution |-> r] :
        g \in { [c \in 1..4 |-> "GAIN_1"],
                <<"GAIN_1", "GAIN_2", "GAIN_4", "GAIN_8">>,
                <<"GAIN_8", "GAIN_4", "GAIN_2", "GAIN_1">> },
        r \in {"RESOLUTION_12", "RESOLUTION_18"} }

\* getGain (lines 779-796): the gain an option of the settings object names.
getGain(x) ==
    CASE x = "GAIN_1" -> 1
      [] x = "GAIN_2" -> 2
      [] x = "GAIN_4" -> 4
      [] x = "GAIN_8" -> 8
      [] OTHER -> 8

\* getResolution (lines 798-815): the resolution in bits an option names.
getResolution(x) ==
    CASE x = "RESOLUTION_12" -> 12
      [] x = "RESOLUTION_14" -> 14
      [] x = "RESOLUTION_16" -> 16
      [] x = "RESOLUTION_18" -> 18
      [] OTHER -> 18

\* MCP3424SetConfig (lines 817-920): what the function computes for a channel
\* under the settings: the resolution and the gain it hands back, the
\* configuration byte it writes and the number of data bytes of a read.
\* The switch on gain compares it with the character constants '8', '4', '2'
\* and '1', which are 56, 52, 50 and 49; config is a uint8_t, so every
\* assignment to it keeps the low eight bits.
MCP3424SetConfig(channel, settings) ==
    LET RECURSIVE BitOr(_, _)
        BitOr(a, b) ==
            IF a = 0 THEN b
            ELSE IF b = 0 THEN a
            ELSE (IF a % 2 = 1 \/ b % 2 = 1 THEN 1 ELSE 0)
                 + 2 * BitOr(a \div 2, b \div 2)
        gain == IF channel \in 1..4 THEN getGain(settings.gain[channel])
                ELSE 8
        resolution == IF channel \in 1..4
                      THEN getResolution(settings.Channel1Resolution)
                      ELSE 18
        channelBits == (channel - 1) % 256
        PGAgain == CASE gain = 56 -> 3
                     [] gain = 52 -> 2
                     [] gain = 50 -> 1
                     [] gain = 49 -> 0
                     [] OTHER -> 3
        sampleRate == CASE resolution = 18 -> 3
                        [] resolution = 16 -> 2
                        [] resolution = 14 -> 1
                        [] resolution = 12 -> 0
                        [] OTHER -> 3
        conversionModeBit == 0
        c1 == BitOr(PGAgain, sampleRate * 4) % 256
        c2 == BitOr(c1, conversionModeBit * 16) % 256
        c3 == BitOr(c2, channelBits * 64) % 256
        c4 == BitOr(c3, 128) % 256
    IN [resolution |-> resolution, gain |-> PGAgain, configured |-> gain,
        config |-> c4,
        dataNumBytes |-> IF resolution = 18 THEN 3 ELSE 2]

\* The ground station stores a settings object; MCP3424SetConfig fetches the
\* object anew in every call (line 831).
MCP3424SettingsSet ==
    /\ \E s \in McpSettingsValues :
        /\ s # mcp.settings
        /\ mcp' = [mcp EXCEPT !.settings = s]
    /\ UNCHANGED << attVars, esc >>

\* ReadCylinderHeadTemp (lines 952-994) and the branch of the task loop on
\* its result and on that of the cold junction read (lines 1126-1166): the
\* configuration is written, then the data is read; either transfer may
\* fail.
ReadCylinderHeadTemp ==
    /\ mcp.pcq = "head"
    /\ \E wrote \in BOOLEAN, got \in BOOLEAN, b2 \in BOOLEAN :
        LET channel == 1
            cfg == MCP3424SetConfig(channel, mcp.settings)
            success == wrote /\ got
        IN mcp' = [mcp EXCEPT !.pcq = "voltage",
                              !.configByte = cfg.config,
                              !.channel.head = channel,
                              !.written.head = cfg.config,
                              !.ok.head = success,
                              !.d1.buf4 = IF success /\ b2 THEN cfg.config
                                          ELSE 111]
    /\ UNCHANGED << attVars, esc >>

\* ReadVoltage (lines 996-1039), called at line 1180.
ReadVoltage ==
    /\ mcp.pcq = "voltage"
    /\ \E wrote \in BOOLEAN, got \in BOOLEAN :
        LET channel == 3
            cfg == MCP3424SetConfig(channel, mcp.settings)
        IN mcp' = [mcp EXCEPT !.pcq = "current",
                              !.configByte = cfg.config,
                              !.channel.voltage = channel,
                              !.written.voltage = cfg.config,
                              !.ok.voltage = wrote /\ got]
    /\ UNCHANGED << attVars, esc >>

\* ReadCurrent (lines 1041-1084), called at line 1187.
ReadCurrent ==
    /\ mcp.pcq = "current"
    /\ \E wrote \in BOOLEAN, got \in BOOLEAN :
        LET channel == 3
            cfg == MCP3424SetConfig(channel, mcp.settings)
        IN mcp' = [mcp EXCEPT !.pcq = "publish",
                              !.configByte = cfg.config,
                              !.channel.current = channel,
                              !.written.current = cfg.config,
                              !.ok.current = wrote /\ got]
    /\ UNCHANGED << attVars, esc >>

\* The end of a pass of the task loop (lines 1196-1202): the sensor object
\* is set and the task sleeps until its next period.
MCP3424sensorSet ==
    /\ mcp.pcq = "publish"
    /\ mcp' = [mcp EXCEPT !.pcq = "head", !.sensor = mcp.d1]
    /\ UNCHANGED << attVars, esc >>

NextMCP ==
    \/ MCP3424SettingsSet
    \/ ReadCylinderHeadTemp \/ ReadVoltage \/ ReadCurrent
    \/ MCP3424sensorSet

SpecMCP == Init /\ [][NextMCP]_vars


\* ------------------------------------------------------------------------
\* Properties
\* ------------------------------------------------------------------------

FailedResults == {"gyro_timeout", "accel_absent"}

\* An estimator call returns in this step.
CallReturns == passes' = passes + 1

\* C1: a complementary iteration that fails on the gyro wait or on the
\* missing accelerometer event returns having left AttitudeActual
\* (quaternion and roll/pitch/yaw) and GyrosBias exactly as they were, and
\* so does every one of a run of consecutive failed iterations.
C1_FailedIterationKeepsOutputs ==
    [][(CallReturns /\ last'.result \in FailedResults)
          => (AttitudeActual' = AttitudeActual /\ GyrosBias' = GyrosBias)]_vars

\* A run of consecutive gyro timeouts right after a completed iteration
\* that had turned the attitude away from its initial value.
C1_Witness ==
    /\ last.result = "gyro_timeout"
    /\ last.prev = "ok"
    /\ wdg > 2
    /\ AttitudeActual.q # Identity

\* C2: after every failed complementary iteration the alarm reads WARNING,
\* and it stays so until an iteration runs to completion; after every
\* completed iteration it reads CLEAR.
C2_AlarmFollowsLastIteration ==
    /\ last.result \in FailedResults => alarm = "WARNING"
    /\ last.result = "ok" => alarm = "CLEAR"

\* A completed iteration right after a failed one has cleared the alarm.
C2_Witness ==
    /\ last.result = "ok"
    /\ last.prev \in FailedResults
    /\ alarm = "CLEAR"

\* Squared length of a quaternion with finite components.
NormSq(q) == Mul(q[1], q[1]) + Mul(q[2], q[2]) + Mul(q[3], q[3])
               + Mul(q[4], q[4])

\* Tolerance on the squared length, at the resolution 1/SC.
NormTol == 5 * (SC \div 1000)

IsUnitCanonical(q) ==
    /\ \A i \in 1..4 : IsFinite(q[i])
    /\ q[1] >= 0
    /\ Abs(NormSq(q) - SC) <= NormTol

\* C3: the quaternion published by every completed iteration has norm 1 and
\* a scalar part >= 0, whatever the inputs.
C3_PublishedQuaternionUnit ==
    last.result = "ok" => IsUnitCanonical(AttitudeActual.q)

\* C4: when no magnetometer event was received in an iteration, its
\* magnetic error is zero.
C4_NoMagErrorWithoutFreshSample ==
    (last.result = "ok" /\ ~last.magFresh) => last.mag_err = Zero3

\* C5: an iteration fails for lack of an accelerometer event only after
\* having waited the failsafe timeout for it.
C5_AccelWaitIsBounded ==
    last.result = "accel_absent" => last.waited >= FAILSAFE_TIMEOUT_MS

\* The gain pairs of one settings version, and the forced pair.
GainVersions ==
    { << s.AccelKi, s.AccelKp >> : s \in SettingsValues }
      \cup { << AggressiveKi, AggressiveKp >> }

\* C6: the accelKi used at the bias accumulation and the accelKp used at
\* the rate correction of one iteration belong to one settings version.
C6_OneSettingsVersionPerIteration ==
    last.result = "ok" => << last.usedKi, last.usedKp >> \in GainVersions

\* C7: nobody writes GyrosBias between the estimator's GyrosBiasGet and its
\* GyrosBiasSet, so the Set overwrites no other writer's value.
C7_GyrosBiasSingleWriter ==
    pc = "bias" => loc.gyrosBias = GyrosBias

\* C8: the INS/GPS filter is seeded only in an iteration that received a
\* magnetometer, a barometer and a GPS event.
C8_InitNeedsAllFiveFresh ==
    ins.result = "initialized"
        => (ins.magRecv /\ ins.baroRecv /\ ins.gpsRecv)

Aggressive(kp, ki, yaw) ==
    kp = AggressiveKp /\ ki = AggressiveKi /\ yaw = AggressiveYawBiasRate

\* C9: a completed iteration whose gain policy ran before tick 7000 ran it
\* with the aggressive gains.
C9_WarmupUsesAggressiveGains ==
    (last.result = "ok" /\ last.tickAtPolicy < WarmupEndTick)
        => Aggressive(last.policyKp, last.policyKi, last.policyYaw)

InWarmupWindow(t) == t > WarmupStartTick /\ t < WarmupEndTick

BiasLimit == SC \div 10

FlagsArePolls ==
    /\ ins.mag_updated = ins.magRecv
    /\ ins.baro_updated = ins.baroRecv
    /\ ins.gps_updated = ins.gpsRecv

\* C12: in every post-initialization INS/GPS iteration (here: one whose
\* flags are what the polls returned) the sensor mask passed to
\* INSCorrection has the magnetometer channel iff the magnetometer is
\* fresh, the barometer channel iff the barometer is fresh, and the
\* horizontal and vertical channels iff GPS is fresh.
C12_MaskHasEveryFreshChannel ==
    (ins.result = "updated" /\ FlagsArePolls)
        => /\ "MAG" \in ins.sensors <=> ins.magRecv
           /\ "BARO" \in ins.sensors <=> ins.baroRecv
           /\ "HORIZ" \in ins.sensors <=> ins.gpsRecv
           /\ "VERT" \in ins.sensors <=> ins.gpsRecv

\* C13: no failure stops the task.  The watchdog flag has been updated once
\* for every call that returned, and under any pattern of sensor arrivals
\* and timeouts the loop goes on to its next call, up to the bounded number
\* of calls.
C13_LoopNeverStops ==
    [](wdg >= passes) /\ <>(passes = MaxPass)

\* The loop has gone on after two failed calls in a row.
C13_Witness ==
    /\ passes = MaxPass
    /\ last.result \in FailedResults
    /\ last.prev \in FailedResults
    /\ wdg >= MaxPass

\* C14: in INS/GPS mode the alarm is clear after every iteration that
\* completed successfully (returned 0; here: one whose flags are what the
\* polls returned), also when an earlier iteration had set it to WARNING.
C14_InsSuccessClearsAlarm ==
    /\ estimator = "insgps"
    /\ last.result \in {"ok", "initialized"}
    /\ FlagsArePolls
    => alarm = "CLEAR"

\* A call of updateAttitudeINSGPS that got its gyro and accel events returns
\* in this step.
InsCallReturns == pc = "ins_accel" /\ pc' = "wait" /\ accelQueue > 0

\* C15: before initialization, an INS/GPS iteration that got gyro and accel
\* but did not receive all of mag, baro and GPS leaves the alarm,
\* AttitudeActual, GyrosBias, PositionActual, VelocityActual and the filter
\* as they were, and leaves the filter uninitialised for the next iteration
\* to try again.
C15_IncompleteInitChangesNothing ==
    [][(/\ InsCallReturns
        /\ ~inited
        /\ ~(magQueue > 0 /\ baroQueue > 0 /\ gpsQueue > 0))
          => UNCHANGED << alarm, AttitudeActual, GyrosBias, PositionActual,
                          VelocityActual, Nav, inited >>]_vars

\* C16: in every predictor/corrector iteration the time step handed to
\* INSStatePrediction and the one handed to INSCovariancePrediction are the
\* same value, and it lies in [0.001, 0.01] seconds whatever time elapsed
\* since the previous iteration.
C16_TimeStepClamped ==
    ins.result = "updated"
        => /\ ins.dT = ins.covDT
           /\ Le(SC \div 1000, ins.dT)
           /\ Le(ins.dT, SC \div 100)

C16_Witness ==
    /\ ins.result = "updated"
    /\ Gt(ins.elapsed, SC \div 100)
    /\ ins.dT = SC \div 100

\* Magnetic errors an iteration could have computed instead of its own:
\* none (fresh or null vector), a finite one, and NaN on every axis.
MagErrSamples == { Zero3, << SC \div 2, -(SC \div 2), SC \div 4 >>,
                   << NaN, NaN, NaN >> }

\* C17: in a complementary iteration the x and y components of GyrosBias
\* and of the corrected rates are what they would be for any other magnetic
\* error, and the z components depend on the magnetic error through its z
\* component only.
C17_MagErrorOnlyInYaw ==
    [][/\ (pc = "bias" /\ pc' = "update")
            => \A m \in MagErrSamples :
                 LET b == BiasAccumulate(loc.gyrosBias, loc.accel_err, m,
                                         accelKi)
                     z == BiasAccumulate(loc.gyrosBias, loc.accel_err,
                                         << m[1], m[2], mag_err[3] >>,
                                         accelKi)
                 IN  /\ GyrosBias'[1] = b[1]
                     /\ GyrosBias'[2] = b[2]
                     /\ GyrosBias'[3] = z[3]
       /\ (pc = "update" /\ pc' = "wait")
            => \A m \in MagErrSamples :
                 LET r == RateCorrect(loc.gyrosData, loc.accel_err, m,
                                      accelKp, loc.dT)
                     z == RateCorrect(loc.gyrosData, loc.accel_err,
                                      << m[1], m[2], mag_err[3] >>,
                                      accelKp, loc.dT)
                 IN  /\ last'.rate[1] = r[1]
                     /\ last'.rate[2] = r[2]
                     /\ last'.rate[3] = z[3]]_vars

C17_Witness ==
    /\ last.result = "ok"
    /\ last.mag_err[1] # 0
    /\ last.mag_err[3] # 0
    /\ ~IsNaN(last.rate[1])

\* C18: the stability guard resets only the bias components that exceed
\* 0.1 in magnitude; a component within the limit keeps the value the
\* correction gave it.
C18_GuardKeepsComponentsWithinLimit ==
    ins.result = "updated"
        => \A i \in 1..3 :
              Le(Fabs(ins.corrected.gyro_bias[i]), BiasLimit)
                  => Nav.gyro_bias[i] = ins.corrected.gyro_bias[i]

\* C19: in every INS/GPS iteration that polls the slow sensors, the mag,
\* baro and GPS freshness flags it uses equal the outcome of that
\* iteration's polls, and the GPS correction is in the sensor mask only
\* when a GPS sample was polled.
C19_FlagsEqualThisIterationsPolls ==
    ins.result \in {"init_incomplete", "initialized", "updated"}
        => /\ FlagsArePolls
           /\ ("HORIZ" \in ins.sensors \/ "VERT" \in ins.sensors)
                 => ins.gpsRecv

\* The length computed at line 363 is one that line 371 reinitialises on.
ShortOrNaN(qmag) == Lt(Fabs(qmag), QmagMin) \/ IsNaN(qmag)

\* C20: when the quaternion length after the time step of a complementary
\* iteration is below 1e-3 or NaN, the iteration publishes exactly the
\* identity quaternion, clears the alarm and returns 0, and the loop goes
\* on to the next call.
C20_DivergenceRecoveredAsSuccess ==
    [][(pc = "update" /\ pc' # "update" /\ ShortOrNaN(last'.qmag))
          => /\ AttitudeActual'.q = Identity
             /\ alarm' = "CLEAR"
             /\ last'.result = "ok"
             /\ pc' = "wait"
             /\ wdg' = wdg + 1]_vars

C20_Witness ==
    /\ last.result = "ok"
    /\ ShortOrNaN(last.qmag)
    /\ AttitudeActual.q = Identity
    /\ alarm = "CLEAR"
    /\ pc = "wait"

\* C21: an accelerometer sample of (0, 0, 0) puts no NaN or infinity into
\* GyrosBias (lines 331-334) or into the published quaternion (line 383).
C21_NullAccelKeepsStateFinite ==
    [][/\ (pc = "bias" /\ pc' = "update" /\ loc.accelsData = AccelNull)
            => \A i \in 1..3 : IsFinite(GyrosBias'[i])
       /\ (pc = "update" /\ pc' = "wait" /\ loc.accelsData = AccelNull)
            => \A i \in 1..4 : IsFinite(AttitudeActual'.q[i])]_vars

\* C22: when settingsUpdatedCb completes, at task start and on a later
\* settings change, GyrosBias is the configured GyroBias / 100 on each axis,
\* or that value with the accumulation of an iteration that read GyrosBias
\* after the callback wrote it.
C22_BiasRestoredFromSettings ==
    [][/\ (pc = "start" /\ pc' # "start")
            => GyrosBias' = SettingsGyroBias(AttitudeSettings')
       /\ (cbpc = "rot" /\ cbpc' = "idle")
            => LET s == SettingsGyroBias(AttitudeSettings')
               IN  \/ GyrosBias' = s
                   \/ /\ loc.gyrosBias = s
                      /\ GyrosBias' = BiasAccumulate(s, loc.accel_err,
                                                     mag_err, loc.usedKi)]_vars

\* A step of the attitude task: it moves the task's position or ends a pass.
TaskStep == pc' # pc \/ passes' # passes

\* C23: each of the five sensor queues holds at most one event in every
\* state, an event published onto an occupied slot adds nothing, and only
\* steps of the attitude task take events out.
C23_QueuesHoldOneEvent ==
    /\ [](\A n \in { gyroQueue, accelQueue, magQueue, baroQueue, gpsQueue } :
             n \in {0, 1})
    /\ [][(\/ gyroQueue' < gyroQueue \/ accelQueue' < accelQueue
           \/ magQueue' < magQueue \/ baroQueue' < baroQueue
           \/ gpsQueue' < gpsQueue) => TaskStep]_vars

C23_Witness ==
    /\ pc = "wait"
    /\ passes = 1
    /\ gyroQueue = 1
    /\ accelQueue = 1
    /\ magQueue = 1

\* C24: every pass of the task loop runs the complementary filter and none
\* runs the INS/GPS estimator, so PositionActual, VelocityActual and the
\* filter state stay as they were before the task started.
C24_EstimatorFixed ==
    /\ estimator = "complementary"
    /\ last.result \in {"none", "ok"} \cup FailedResults
    /\ ins = NoIns
    /\ ~inited
    /\ Nav = NoNav
    /\ PositionActual = Zero3
    /\ VelocityActual = Zero3

C24_Witness ==
    /\ passes = MaxPass
    /\ last.result = "ok"
    /\ last.prev = "ok"
    /\ estimator = "complementary"
    /\ PositionActual = Zero3

\* C25: a successful complementary iteration takes as its time step the
\* whole time since the timestamp was last stored, stores the timestamp,
\* and integrates over that step; a failed iteration leaves the timestamp
\* alone, and the timestamp starts at 0.
C25_TimeStepIsWholeGap ==
    [][/\ (pc = "sample" /\ pc' = "bias")
            => (loc'.dT = tick - timeval /\ timeval' = tick)
       /\ (pc = "update" /\ pc' = "wait") => last'.dT = loc.dT
       /\ (passes' # passes /\ last'.result \in FailedResults)
            => timeval' = timeval
       /\ (/\ passes <= 2
           /\ last.result \in FailedResults \cup {"none"}
           /\ last.prev \in FailedResults \cup {"none"}
           /\ pc \in {"start", "wait", "policy", "sample"})
            => timeval = 0]_vars

C25_Witness ==
    /\ last.result = "ok"
    /\ last.prev = "gyro_timeout"
    /\ last.dT = tick
    /\ last.dT > StartDelayTicks + 2 * FAILSAFE_TIMEOUT_MS

\* C26: at the end of a completed iteration of the initialised INS/GPS
\* estimator the published quaternion is Nav.q, the published GyrosBias is
\* Nav.gyro_bias, PositionActual is Nav.Pos and VelocityActual is Nav.Vel.
C26_InsOutputsMatchNav ==
    (ins.result = "updated" /\ pc = "wait")
        => /\ AttitudeActual.q = Nav.q
           /\ GyrosBias = Nav.gyro_bias
           /\ PositionActual = Nav.Pos
           /\ VelocityActual = Nav.Vel

\* The place of a startup state in the order of enum init_state.
StartRank(s) ==
    CASE s = "INIT_GRAB" -> 0
      [] s = "INIT_ACCEL" -> 1
      [] s = "INIT_WAIT" -> 2
      [] s = "INIT_FAIL" -> 3

\* C27: the startup state never goes backwards along INIT_GRAB, INIT_ACCEL,
\* INIT_WAIT, INIT_FAIL; one handled commutation moves it by at most one
\* place; INIT_FAIL is never left; and a commutation handled in INIT_FAIL
\* leaves the driver switched off.
C27_StartupAdvancesOneStep ==
    [][ /\ StartRank(esc'.init_state) >= StartRank(esc.init_state)
        /\ esc'.handled = esc.handled + 1
              => StartRank(esc'.init_state) - StartRank(esc.init_state)
                     \in {0, 1}
        /\ esc.init_state = "INIT_FAIL" => esc'.init_state = "INIT_FAIL"
        /\ esc.init_state = "INIT_FAIL" /\ esc'.handled > esc.handled
              => ~esc'.on ]_vars

\* Startup ran through all four states in open loop and a commutation was
\* handled in INIT_FAIL.
C27_Witness ==
    /\ ~esc.closed_loop
    /\ esc.init_state = "INIT_FAIL"
    /\ esc.init_counter > InitWaitLimit + 1
    /\ esc.handled > InitWaitLimit
           + (final_startup_speed - initial_startup_speed) \div SpeedStep + 3
    /\ ~esc.on

\* Handled commutations of the speed ramp: current_speed goes from
\* initial_startup_speed to final_startup_speed in steps of SpeedStep.
RampPasses == (final_startup_speed - initial_startup_speed) \div SpeedStep

\* Handled commutations from reset to INIT_FAIL in open loop: one in
\* INIT_GRAB, the ramp and the pass that ends it, and the wait.
StartupPasses == 1 + RampPasses + 1 + (InitWaitLimit + 2)

\* C28: open-loop startup ends.  While closed loop has not been reached, the
\* startup state is INIT_FAIL exactly from the 2429th handled commutation
\* on, and the driver is off from the next one on.
C28_StartupGivesUp ==
    ~esc.closed_loop =>
        /\ esc.init_state = "INIT_FAIL" <=> esc.handled >= StartupPasses
        /\ esc.handled > StartupPasses => ~esc.on

\* The first commutation handled in INIT_FAIL, closed loop never reached.
C28_Witness ==
    /\ ~esc.closed_loop
    /\ esc.consecutive_detected = 0
    /\ esc.handled = StartupPasses + 1
    /\ esc.init_state = "INIT_FAIL"
    /\ ~esc.on

\* The order of commutation states, each followed by its successor and the
\* last by the first.
CommutationCycle == << 3, 1, 0, 5, 4, 2 >>

\* p comes right before s in the cycle.
Precedes(p, s) ==
    \E i \in 1..Len(CommutationCycle) :
        /\ CommutationCycle[i] = p
        /\ CommutationCycle[(i % Len(CommutationCycle)) + 1] = s

\* A call of process_message that gets past the tests of lines 365 and 370.
MessageJudged ==
    /\ esc.adc = "posted" /\ esc'.adc = "idle"
    /\ ~esc.message.read
    /\ esc.message.state = esc.state

\* C29: a message is counted as detected exactly when prev_state, the state
\* of the message processed before it, precedes its state in the cycle
\* 3, 1, 0, 5, 4, 2; a detected message adds one to consecutive_detected and
\* zeroes consecutive_skipped, a skipped one adds one to consecutive_skipped
\* and zeroes consecutive_detected; a message for the state of the message
\* before it is skipped; and the two counters are never both non-zero.
C29_SkippedIffOutOfCycle ==
    /\ [](esc.consecutive_detected = 0 \/ esc.consecutive_skipped = 0)
    /\ [][ MessageJudged =>
            /\ esc'.verdict \in {"detected", "skipped"}
            /\ esc'.verdict = "detected"
                  <=> Precedes(esc.prev_state, esc.message.state)
            /\ esc'.verdict = "detected" =>
                  /\ esc'.consecutive_detected = esc.consecutive_detected + 1
                  /\ esc'.consecutive_skipped = 0
            /\ esc'.verdict = "skipped" =>
                  /\ esc'.consecutive_skipped = esc.consecutive_skipped + 1
                  /\ esc'.consecutive_detected = 0
            /\ esc.message.state = esc.prev_state
                  => esc'.verdict = "skipped"
            /\ esc'.prev_state = esc.message.state ]_vars

\* A second message for one state has been counted as skipped.  The state
\* is not 0, so prev_state came from a message and not from reset.
C29_Witness ==
    /\ esc.verdict = "skipped"
    /\ esc.judged_after = esc.message.state
    /\ esc.message.state # 0
    /\ esc.consecutive_skipped = 1
    /\ esc.consecutive_detected = 0
    /\ esc.adc = "idle"

\* C30: closed_loop becomes true only with more than 200 consecutive
\* detected messages counted, and once true it stays true and the startup
\* state stays as it is; in closed loop, more than 50 consecutive skipped
\* messages leave the driver switched off.
C30_ClosedLoopIsKept ==
    /\ [](esc.closed_loop /\ esc.consecutive_skipped > SkippedLimit
             => ~esc.on)
    /\ [](esc.closed_loop => esc.entered_at > ClosedLoopDetects)
    /\ [][ /\ ~esc.closed_loop /\ esc'.closed_loop /\ MessageJudged
                 => /\ esc'.verdict = "detected"
                    /\ esc.consecutive_detected >= ClosedLoopDetects
                    /\ esc'.consecutive_detected > ClosedLoopDetects
           /\ esc.closed_loop
                 => /\ esc'.closed_loop
                    /\ esc'.init_state = esc.init_state
                    /\ esc'.handled = esc.handled ]_vars

\* Synchronisation was lost in closed loop: the driver is off, the mode is
\* still closed loop and startup has not begun again.
C30_Witness ==
    /\ esc.closed_loop
    /\ esc.consecutive_skipped = SkippedLimit + 1
    /\ esc.consecutive_detected = 0
    /\ esc.init_state = "INIT_ACCEL"
    /\ ~esc.on

\* C31: between two commutations the ADC callback reports at most one zero
\* crossing for the state the driver is in.
C31_OneMessagePerCommutation == esc.reports <= 1

\* A pass of main's loop through the closed-loop branch (lines 223-254).
ClosedLoopHandled ==
    /\ esc.pcm = "handling" /\ esc'.pcm = "finish"
    /\ esc.closed_loop

\* C32: in closed loop consecutive_nondetects counts the handled
\* commutations without a detected zero crossing and goes back to 0 with a
\* detected one; the pass that takes it past 50 switches the driver off and
\* disables the timer interrupt; and from then on no commutation happens and
\* main takes no further commutation in hand.
C32_NondetectsStopCommutation ==
    [][ /\ ClosedLoopHandled =>
              /\ esc'.consecutive_nondetects =
                     IF esc.commutation_detected THEN 0
                     ELSE esc.consecutive_nondetects + 1
              /\ esc'.consecutive_nondetects > NondetectLimit
                     => ~esc'.on /\ ~esc'.timer
        /\ esc.consecutive_nondetects > NondetectLimit =>
              /\ ~esc'.on /\ ~esc'.timer
              /\ esc'.state = esc.state
              /\ ~(esc.pcm = "idle" /\ esc'.pcm = "handling") ]_vars

\* C33: whenever adc_callback can be entered (it is registered and not
\* running) message.read is true, so no message is posted over an unread
\* one: the test of line 545 never succeeds.
C33_MailboxNeverOverrun ==
    /\ [](esc.pcm # "boot" /\ esc.adc = "idle" => esc.message.read)
    /\ [][esc.adc = "idle" /\ esc'.adc = "posted" => esc.message.read]_vars

\* A message that failed the test of line 370, after a commutation between
\* its posting and its processing, has been consumed all the same: the
\* callback has returned and the mailbox is free.
C33_Witness ==
    /\ esc.adc = "idle"
    /\ esc.message.read
    /\ esc.verdict = "stale"
    /\ esc.reports = 0
    /\ esc.commutation_detected

\* C34: every duty cycle given to the driver lies in (0.05, 0.20]: 0.18 at
\* arming, 0.20 by the pass in INIT_GRAB, a value in (0.10, 0.12] by a pass
\* in INIT_ACCEL or INIT_WAIT, none by a pass in INIT_FAIL (the passes are
\* looked at on the steps that handle one commutation in open loop), and in
\* closed loop the driver holds a value strictly between 0.05 and 0.20
\* wherever dc has gone.
C34_DutyCycleInRange ==
    /\ [](esc.pcm \notin {"boot", "arm"} =>
             /\ DcLow < esc.duty_lo /\ esc.duty_lo <= esc.duty
             /\ esc.duty <= esc.duty_hi /\ esc.duty_hi <= DcHigh)
    /\ [](esc.closed_loop => DcLow < esc.duty /\ esc.duty < DcHigh)
    /\ [][ /\ esc.pcm = "arm" /\ esc'.pcm = "idle" => esc'.duty = 18000000
           /\ esc'.handled = esc.handled + 1 /\ ~esc'.closed_loop =>
                 /\ esc.init_state = "INIT_GRAB" => esc'.duty = 20000000
                 /\ esc.init_state \in {"INIT_ACCEL", "INIT_WAIT"} =>
                       10000000 < esc'.duty /\ esc'.duty <= 12000000
                 /\ esc.init_state = "INIT_FAIL" => esc'.duty = esc.duty ]_vars

\* In closed loop dc has drifted to 0.20 or beyond; the driver still runs
\* on the last value that was in range.
C34_Witness ==
    /\ esc.closed_loop
    /\ esc.on
    /\ esc.dc >= DcHigh
    /\ esc.duty < DcHigh
    /\ esc.duty > DcStartup
    /\ esc.duty_hi = DcGrab

\* C35: at the end of a pass of the sensor task the cylinder head temperature
\* was asked of channel 1, the ignition battery voltage of channel 3 and the
\* ignition battery current of channel 4.
\* ReadCurrent asks channel 3 (line 1043), so this does not hold.
C35_ReadsDocumentedChannels ==
    mcp.pcq = "publish" =>
        /\ mcp.channel.head = 1
        /\ mcp.channel.voltage = 3
        /\ mcp.channel.current = 4

\* C36: once the task has configured the converter, under the settings
\* object in force MCP3424SetConfig gives the four channels four different
\* configuration bytes, hands back the PGA code 0, 1, 2, 3 for the
\* configured gain 1, 2, 4, 8, and puts that code in the two low bits of the
\* byte.  The switch on gain never matches (it compares with character
\* constants) and channelBits is shifted onto the start bit, so this does
\* not hold.
C36_ConfigEncodesInputs ==
    mcp.channel.head = 1 =>
    \A c \in 1..4 :
        LET r == MCP3424SetConfig(c, mcp.settings)
            code == CASE r.configured = 1 -> 0
                      [] r.configured = 2 -> 1
                      [] r.configured = 4 -> 2
                      [] r.configured = 8 -> 3
        IN /\ r.gain = code
           /\ r.config % 4 = code
           /\ \A d \in 1..4 :
                d # c => MCP3424SetConfig(d, mcp.settings).config # r.config

=============================================================================
